---- MODULE Spec2Model ----
(***************************************************************************)
(* Citation pipeline: the dispatcher Lambda                                *)
(* (src/src/dispatcher_citation/citation_dispatcher_lambda.py) and the     *)
(* worker Lambda (src/src/worker_citation/citation_worker_lambda.py).      *)
(*                                                                         *)
(* Strings that the code inspects character by character (record ids) are  *)
(* sequences of one-character strings.  Python's None / pandas' NaN are    *)
(* the token values None and NaN below.                                    *)
(***************************************************************************)
EXTENDS Integers, Sequences, FiniteSets, TLC

VARIABLES
    bucket,     \* S3 input bucket: the set of object keys under INPUT_S3_PREFIX
    content,    \* S3 input bucket: key -> the kind of file stored under it
    pending,    \* asynchronous Lambda invocations (Event) accepted, not yet started
    dpc,        \* dispatcher: the position of each invocation started so far
    run,        \* dispatcher: the handler's locals in each invocation
    queue,      \* SQS queue: the message bodies the queue accepted, in order
    dlog,       \* observable effects of the dispatcher chain, in order
    acked,      \* SQS queue: indexes of queue deleted after a successful delivery
    sink,       \* S3 result bucket: the objects, each a key and a body
    wpc,        \* worker handler position: "idle" | "loop" | "returned" | "raised"
    wrun,       \* locals of the running worker invocation
    wCount,     \* number of worker invocations started so far
    wlog,       \* observable effects of the latest worker invocation, in order
    frame,      \* dispatch_dataframe on its own: the data frame it is given
    result      \* dispatch_dataframe on its own: what the call did

dvars == <<bucket, content, pending, dpc, run, dlog>>
wvars == <<acked, sink, wpc, wrun, wCount, wlog>>
fvars == <<frame, result>>
vars  == <<bucket, content, pending, dpc, run, queue, dlog,
           acked, sink, wpc, wrun, wCount, wlog, frame, result>>

(***************************************************************************)
(* Bounds of the model.                                                    *)
(***************************************************************************)
MaxFiles == 2            \* .jsonl objects in the input bucket
MaxInvocations == 4      \* dispatcher invocations the Lambda service starts
MaxConcurrent == 2       \* dispatcher invocations the service runs at a time
MaxRows == 11            \* rows of the largest input file
MaxMsgs == 2             \* messages in the worker's queue
MaxDeliveries == 2       \* worker invocations
MaxFrame == 21           \* rows of the largest frame dispatched on its own
MaxIdLen == 1            \* characters of a record id after its long prefix

(***************************************************************************)
(* Program constants.                                                      *)
(***************************************************************************)
batch_size == 10         \* dispatch_dataframe: entries per send_message_batch
TimeThreshold == 30000   \* handler: remaining-time threshold, milliseconds
IdLimit == 80            \* dispatch_dataframe: [:80] on the entry Id

None == <<"<None>">>
NaN  == <<"<NaN>">>

Min(a, b) == IF a < b THEN a ELSE b

Digits == <<"0", "1", "2", "3", "4", "5", "6", "7", "8", "9">>
Digit(n) == Digits[(n % 10) + 1]

(***************************************************************************)
(* Dispatcher: input bucket.                                               *)
(***************************************************************************)
\* Object keys: "<prefix>papers_24<name>.<ext>"; keys that differ only in
\* name compare as their names do.
JsonlKey(n) == [name |-> n, ext |-> "jsonl"]
OtherKey    == [name |-> 0, ext |-> "csv"]
Keys == {JsonlKey(n) : n \in 1..MaxFiles} \cup {OtherKey}

KeyLess(a, b) == a.name < b.name

\* obj['Key'].endswith('.jsonl')
endswith_jsonl(k) == k.ext = "jsonl"

\* Values a data frame can hold besides text: a float and an integer are
\* the characters of their repr after a token that tells the type.
Float64(repr) == <<"<float>">> \o repr
Int64(repr)   == <<"<int>">> \o repr
IsNumber(x) == x # <<>> /\ x[1] \in {"<float>", "<int>"}

\* The record ids of file n: the text "pn.ij", and the text "n.10", which
\* reads as a number.
RowId(n, i) == <<"p", Digit(n), ".", Digit(i \div 10), Digit(i)>>
NumId(n) == <<Digit(n), ".", "1", "0">>
Title == <<"t">>

\* A line of a .jsonl file: a JSON object; a key it does not carry is
\* Absent, a key whose value is null is Null.
Absent == <<"<absent>">>
Null   == <<"<null>">>
Line(id, title) == [id |-> id, title |-> title]

\* The files of the model: one that cannot be read, an empty one, one whose
\* line carries no id, one of a single line whose id reads as a number, one
\* of MaxRows lines, and one of MaxRows lines whose first line carries null
\* as its title, whose second line carries the empty string as its title and
\* whose third line carries no title.
FileKinds == {"unreadable", "empty", "no_id", "one", "full", "holes"}

\* the lines of file n, a file of the given kind
Lines(n, kind) ==
    IF kind \in {"unreadable", "empty"} THEN <<>>
    ELSE IF kind = "no_id" THEN <<Line(Absent, Title)>>
    ELSE IF kind = "one" THEN <<Line(NumId(n), Title)>>
    ELSE IF kind = "full" THEN [i \in 1..MaxRows |-> Line(RowId(n, i), Title)]
    ELSE [i \in 1..MaxRows |->
            Line(RowId(n, i),
                 IF i = 1 THEN Null ELSE IF i = 2 THEN <<>>
                 ELSE IF i = 3 THEN Absent ELSE Title)]

(***************************************************************************)
(* Natural numbers of any size: the sequence of the decimal digits, most   *)
(* significant first (leading zeros allowed, <<>> is zero).                *)
(***************************************************************************)
Max(a, b) == IF a < b THEN b ELSE a

Zeros(n) == [i \in 1..n |-> 0]

Pad(a, n) == Zeros(n - Len(a)) \o a

\* without the first digit, if that is 0
DropZero(r) == IF r # <<>> /\ r[1] = 0 THEN Tail(r) ELSE r

\* without the leading zeros
Trim(a) ==
    IF \A i \in 1..Len(a) : a[i] = 0 THEN <<>>
    ELSE SubSeq(a, CHOOSE i \in 1..Len(a) : a[i] # 0 /\ \A j \in 1..(i - 1) : a[j] = 0,
                Len(a))

\* x < y for digit sequences of one length
LessPadded(x, y) ==
    \E i \in 1..Len(x) : x[i] < y[i] /\ \A j \in 1..(i - 1) : x[j] = y[j]

\* a < b
Less(a, b) ==
    LessPadded(Pad(a, Max(Len(a), Len(b))), Pad(b, Max(Len(a), Len(b))))

Odd(a) == a # <<>> /\ a[Len(a)] % 2 = 1

\* 2 * a: the carry into a digit is 1 exactly when the digit after it is 5
\* or more
Double(a) ==
    DropZero([i \in 1..(Len(a) + 1) |->
                ((2 * (IF i = 1 THEN 0 ELSE a[i - 1])) % 10)
                + (IF i <= Len(a) /\ a[i] >= 5 THEN 1 ELSE 0)])

\* a div 2
Halve(a) ==
    DropZero([i \in 1..Len(a) |->
                ((IF i > 1 THEN (a[i - 1] % 2) * 10 ELSE 0) + a[i]) \div 2])

\* a + 1: a digit changes exactly when every digit after it is 9
Inc(a) ==
    IF \A i \in 1..Len(a) : a[i] = 9 THEN <<1>> \o Zeros(Len(a))
    ELSE [i \in 1..Len(a) |->
            IF \A k \in (i + 1)..Len(a) : a[k] = 9 THEN (a[i] + 1) % 10 ELSE a[i]]

\* x - y - borrow for digit sequences of one length, x >= y + borrow
RECURSIVE SubB(_, _, _)
SubB(x, y, borrow) ==
    LET n == Len(x)
        h == Len(x) \div 2
        xr == SubSeq(x, (Len(x) \div 2) + 1, Len(x))
        yr == SubSeq(y, (Len(x) \div 2) + 1, Len(x))
    IN  IF n = 0 THEN <<>>
        ELSE IF n = 1 THEN <<(x[1] - y[1] - borrow + 10) % 10>>
        ELSE SubB(SubSeq(x, 1, h), SubSeq(y, 1, h),
                  IF Less(xr, yr) \/ (borrow = 1 /\ xr = yr) THEN 1 ELSE 0)
             \o SubB(xr, yr, borrow)

\* a - b, for a >= b
Sub(a, b) ==
    Trim(SubB(Pad(a, Max(Len(a), Len(b))), Pad(b, Max(Len(a), Len(b))), 0))

\* n times the step "double" (a * 2^n), "halve" (a div 2^n) or "times5"
\* (a * 5^n) on a
Repeated ==
    LET R[st \in [a : Seq(0..9), n : Nat, step : {"double", "halve", "times5"}]] ==
            IF st.n = 0 THEN st.a
            ELSE IF st.n = 1
            THEN (IF st.step = "double" THEN Double(st.a)
                  ELSE IF st.step = "halve" THEN Halve(st.a)
                  ELSE Halve(st.a \o <<0>>))
            ELSE R[[st EXCEPT !.a = R[[st EXCEPT !.n = st.n \div 2]],
                              !.n = st.n - (st.n \div 2)]]
    IN  R

\* a * 2^n
Times2(a, n) == Repeated[[a |-> a, n |-> n, step |-> "double"]]

P52 == Times2(<<1>>, 52)

\* the exponents of a double: value = q * 2^e2 with q < 2^53
MinExp == -1074
MaxExp == 971

PowersOfTwo == <<2048, 1024, 512, 256, 128, 64, 32, 16, 8, 4, 2, 1>>

\* the power of two p is taken if it is within the limit and t = y * 2^p is
\* at most x (below x if strict)
GrowOne(st, p, t) ==
    IF p > st.limit \/ Less(st.x, t) \/ (st.strict /\ ~Less(t, st.x))
    THEN [st EXCEPT !.k = st.k + 1]
    ELSE [st EXCEPT !.k = st.k + 1, !.y = t, !.c = st.c + p]

\* The largest c, a sum of powers of two up to limit taken from the k-th on,
\* with y * 2^c <= x (y * 2^c < x if strict), added to st.c.
GrowFrom ==
    LET G[st \in [x : Seq(0..9), y : Seq(0..9), k : Nat, limit : Nat,
                  strict : BOOLEAN, c : Nat]] ==
            IF st.k > Len(PowersOfTwo) THEN st.c
            ELSE G[GrowOne(st, PowersOfTwo[st.k], Times2(st.y, PowersOfTwo[st.k]))]
    IN  G

\* st.steps steps of the binary long division of st.n by st.t, t halved
\* after each step; q is the quotient so far, n what is left to divide
DivSteps ==
    LET D[st \in [n : Seq(0..9), t : Seq(0..9), q : Seq(0..9), steps : Nat]] ==
            IF st.steps = 0 THEN st
            ELSE IF st.steps = 1
            THEN (IF Less(st.n, st.t)
                  THEN [n |-> st.n, t |-> Halve(st.t), q |-> Double(st.q),
                        steps |-> 0]
                  ELSE [n |-> Sub(st.n, st.t), t |-> Halve(st.t),
                        q |-> Inc(Double(st.q)), steps |-> 0])
            ELSE D[[D[[st EXCEPT !.steps = st.steps \div 2]]
                       EXCEPT !.steps = st.steps - (st.steps \div 2)]]
    IN  D

\* the division of n by d, for n < d * 2^bits: q is the quotient and n the
\* remainder of what it gives
DivMod(n, d, bits) ==
    DivSteps[[n |-> n, t |-> Times2(d, bits - 1), q |-> <<>>, steps |-> bits]]

(***************************************************************************)
(* Python's float(text) and repr(float).                                   *)
(***************************************************************************)
\* a float: of class "nan", "inf", "zero", or "finite" with the value
\* (-1)^neg * q * 2^e2
Float(cls, neg, q, e2) == [cls |-> cls, neg |-> neg, q |-> q, e2 |-> e2]

\* The blanks float() drops around a text. A TLA+ string holds no control or
\* non-ASCII character, so such a character is written as its Python escape:
\* "\\v" is the vertical tab, "\\xa0" the no-break space. The separators
\* x1c to x1f are not among them: float() rejects a text that has one.
Whitespace ==
    {" ", "\t", "\n", "\r", "\f", "\\v", "\\x85", "\\xa0", "\\u1680",
     "\\u2000", "\\u2001", "\\u2002", "\\u2003", "\\u2004", "\\u2005",
     "\\u2006", "\\u2007", "\\u2008", "\\u2009", "\\u200a", "\\u2028",
     "\\u2029", "\\u202f", "\\u205f", "\\u3000"}

\* The decimal digits float() reads, a row for each script, 0 to 9 in a row:
\* the ASCII digits and the digits of Unicode class Nd.
DecimalDigits ==
    <<Digits,
      <<"\\u0660", "\\u0661", "\\u0662", "\\u0663", "\\u0664", "\\u0665", "\\u0666", "\\u0667", "\\u0668", "\\u0669">>,
      <<"\\u06f0", "\\u06f1", "\\u06f2", "\\u06f3", "\\u06f4", "\\u06f5", "\\u06f6", "\\u06f7", "\\u06f8", "\\u06f9">>,
      <<"\\u07c0", "\\u07c1", "\\u07c2", "\\u07c3", "\\u07c4", "\\u07c5", "\\u07c6", "\\u07c7", "\\u07c8", "\\u07c9">>,
      <<"\\u0966", "\\u0967", "\\u0968", "\\u0969", "\\u096a", "\\u096b", "\\u096c", "\\u096d", "\\u096e", "\\u096f">>,
      <<"\\u09e6", "\\u09e7", "\\u09e8", "\\u09e9", "\\u09ea", "\\u09eb", "\\u09ec", "\\u09ed", "\\u09ee", "\\u09ef">>,
      <<"\\u0a66", "\\u0a67", "\\u0a68", "\\u0a69", "\\u0a6a", "\\u0a6b", "\\u0a6c", "\\u0a6d", "\\u0a6e", "\\u0a6f">>,
      <<"\\u0ae6", "\\u0ae7", "\\u0ae8", "\\u0ae9", "\\u0aea", "\\u0aeb", "\\u0aec", "\\u0aed", "\\u0aee", "\\u0aef">>,
      <<"\\u0b66", "\\u0b67", "\\u0b68", "\\u0b69", "\\u0b6a", "\\u0b6b", "\\u0b6c", "\\u0b6d", "\\u0b6e", "\\u0b6f">>,
      <<"\\u0be6", "\\u0be7", "\\u0be8", "\\u0be9", "\\u0bea", "\\u0beb", "\\u0bec", "\\u0bed", "\\u0bee", "\\u0bef">>,
      <<"\\u0c66", "\\u0c67", "\\u0c68", "\\u0c69", "\\u0c6a", "\\u0c6b", "\\u0c6c", "\\u0c6d", "\\u0c6e", "\\u0c6f">>,
      <<"\\u0ce6", "\\u0ce7", "\\u0ce8", "\\u0ce9", "\\u0cea", "\\u0ceb", "\\u0cec", "\\u0ced", "\\u0cee", "\\u0cef">>,
      <<"\\u0d66", "\\u0d67", "\\u0d68", "\\u0d69", "\\u0d6a", "\\u0d6b", "\\u0d6c", "\\u0d6d", "\\u0d6e", "\\u0d6f">>,
      <<"\\u0de6", "\\u0de7", "\\u0de8", "\\u0de9", "\\u0dea", "\\u0deb", "\\u0dec", "\\u0ded", "\\u0dee", "\\u0def">>,
      <<"\\u0e50", "\\u0e51", "\\u0e52", "\\u0e53", "\\u0e54", "\\u0e55", "\\u0e56", "\\u0e57", "\\u0e58", "\\u0e59">>,
      <<"\\u0ed0", "\\u0ed1", "\\u0ed2", "\\u0ed3", "\\u0ed4", "\\u0ed5", "\\u0ed6", "\\u0ed7", "\\u0ed8", "\\u0ed9">>,
      <<"\\u0f20", "\\u0f21", "\\u0f22", "\\u0f23", "\\u0f24", "\\u0f25", "\\u0f26", "\\u0f27", "\\u0f28", "\\u0f29">>,
      <<"\\u1040", "\\u1041", "\\u1042", "\\u1043", "\\u1044", "\\u1045", "\\u1046", "\\u1047", "\\u1048", "\\u1049">>,
      <<"\\u1090", "\\u1091", "\\u1092", "\\u1093", "\\u1094", "\\u1095", "\\u1096", "\\u1097", "\\u1098", "\\u1099">>,
      <<"\\u17e0", "\\u17e1", "\\u17e2", "\\u17e3", "\\u17e4", "\\u17e5", "\\u17e6", "\\u17e7", "\\u17e8", "\\u17e9">>,
      <<"\\u1810", "\\u1811", "\\u1812", "\\u1813", "\\u1814", "\\u1815", "\\u1816", "\\u1817", "\\u1818", "\\u1819">>,
      <<"\\u1946", "\\u1947", "\\u1948", "\\u1949", "\\u194a", "\\u194b", "\\u194c", "\\u194d", "\\u194e", "\\u194f">>,
      <<"\\u19d0", "\\u19d1", "\\u19d2", "\\u19d3", "\\u19d4", "\\u19d5", "\\u19d6", "\\u19d7", "\\u19d8", "\\u19d9">>,
      <<"\\u1a80", "\\u1a81", "\\u1a82", "\\u1a83", "\\u1a84", "\\u1a85", "\\u1a86", "\\u1a87", "\\u1a88", "\\u1a89">>,
      <<"\\u1a90", "\\u1a91", "\\u1a92", "\\u1a93", "\\u1a94", "\\u1a95", "\\u1a96", "\\u1a97", "\\u1a98", "\\u1a99">>,
      <<"\\u1b50", "\\u1b51", "\\u1b52", "\\u1b53", "\\u1b54", "\\u1b55", "\\u1b56", "\\u1b57", "\\u1b58", "\\u1b59">>,
      <<"\\u1bb0", "\\u1bb1", "\\u1bb2", "\\u1bb3", "\\u1bb4", "\\u1bb5", "\\u1bb6", "\\u1bb7", "\\u1bb8", "\\u1bb9">>,
      <<"\\u1c40", "\\u1c41", "\\u1c42", "\\u1c43", "\\u1c44", "\\u1c45", "\\u1c46", "\\u1c47", "\\u1c48", "\\u1c49">>,
      <<"\\u1c50", "\\u1c51", "\\u1c52", "\\u1c53", "\\u1c54", "\\u1c55", "\\u1c56", "\\u1c57", "\\u1c58", "\\u1c59">>,
      <<"\\ua620", "\\ua621", "\\ua622", "\\ua623", "\\ua624", "\\ua625", "\\ua626", "\\ua627", "\\ua628", "\\ua629">>,
      <<"\\ua8d0", "\\ua8d1", "\\ua8d2", "\\ua8d3", "\\ua8d4", "\\ua8d5", "\\ua8d6", "\\ua8d7", "\\ua8d8", "\\ua8d9">>,
      <<"\\ua900", "\\ua901", "\\ua902", "\\ua903", "\\ua904", "\\ua905", "\\ua906", "\\ua907", "\\ua908", "\\ua909">>,
      <<"\\ua9d0", "\\ua9d1", "\\ua9d2", "\\ua9d3", "\\ua9d4", "\\ua9d5", "\\ua9d6", "\\ua9d7", "\\ua9d8", "\\ua9d9">>,
      <<"\\ua9f0", "\\ua9f1", "\\ua9f2", "\\ua9f3", "\\ua9f4", "\\ua9f5", "\\ua9f6", "\\ua9f7", "\\ua9f8", "\\ua9f9">>,
      <<"\\uaa50", "\\uaa51", "\\uaa52", "\\uaa53", "\\uaa54", "\\uaa55", "\\uaa56", "\\uaa57", "\\uaa58", "\\uaa59">>,
      <<"\\uabf0", "\\uabf1", "\\uabf2", "\\uabf3", "\\uabf4", "\\uabf5", "\\uabf6", "\\uabf7", "\\uabf8", "\\uabf9">>,
      <<"\\uff10", "\\uff11", "\\uff12", "\\uff13", "\\uff14", "\\uff15", "\\uff16", "\\uff17", "\\uff18", "\\uff19">>,
      <<"\\U000104a0", "\\U000104a1", "\\U000104a2", "\\U000104a3", "\\U000104a4", "\\U000104a5", "\\U000104a6", "\\U000104a7", "\\U000104a8", "\\U000104a9">>,
      <<"\\U00010d30", "\\U00010d31", "\\U00010d32", "\\U00010d33", "\\U00010d34", "\\U00010d35", "\\U00010d36", "\\U00010d37", "\\U00010d38", "\\U00010d39">>,
      <<"\\U00011066", "\\U00011067", "\\U00011068", "\\U00011069", "\\U0001106a", "\\U0001106b", "\\U0001106c", "\\U0001106d", "\\U0001106e", "\\U0001106f">>,
      <<"\\U000110f0", "\\U000110f1", "\\U000110f2", "\\U000110f3", "\\U000110f4", "\\U000110f5", "\\U000110f6", "\\U000110f7", "\\U000110f8", "\\U000110f9">>,
      <<"\\U00011136", "\\U00011137", "\\U00011138", "\\U00011139", "\\U0001113a", "\\U0001113b", "\\U0001113c", "\\U0001113d", "\\U0001113e", "\\U0001113f">>,
      <<"\\U000111d0", "\\U000111d1", "\\U000111d2", "\\U000111d3", "\\U000111d4", "\\U000111d5", "\\U000111d6", "\\U000111d7", "\\U000111d8", "\\U000111d9">>,
      <<"\\U000112f0", "\\U000112f1", "\\U000112f2", "\\U000112f3", "\\U000112f4", "\\U000112f5", "\\U000112f6", "\\U000112f7", "\\U000112f8", "\\U000112f9">>,
      <<"\\U00011450", "\\U00011451", "\\U00011452", "\\U00011453", "\\U00011454", "\\U00011455", "\\U00011456", "\\U00011457", "\\U00011458", "\\U00011459">>,
      <<"\\U000114d0", "\\U000114d1", "\\U000114d2", "\\U000114d3", "\\U000114d4", "\\U000114d5", "\\U000114d6", "\\U000114d7", "\\U000114d8", "\\U000114d9">>,
      <<"\\U00011650", "\\U00011651", "\\U00011652", "\\U00011653", "\\U00011654", "\\U00011655", "\\U00011656", "\\U00011657", "\\U00011658", "\\U00011659">>,
      <<"\\U000116c0", "\\U000116c1", "\\U000116c2", "\\U000116c3", "\\U000116c4", "\\U000116c5", "\\U000116c6", "\\U000116c7", "\\U000116c8", "\\U000116c9">>,
      <<"\\U00011730", "\\U00011731", "\\U00011732", "\\U00011733", "\\U00011734", "\\U00011735", "\\U00011736", "\\U00011737", "\\U00011738", "\\U00011739">>,
      <<"\\U000118e0", "\\U000118e1", "\\U000118e2", "\\U000118e3", "\\U000118e4", "\\U000118e5", "\\U000118e6", "\\U000118e7", "\\U000118e8", "\\U000118e9">>,
      <<"\\U00011950", "\\U00011951", "\\U00011952", "\\U00011953", "\\U00011954", "\\U00011955", "\\U00011956", "\\U00011957", "\\U00011958", "\\U00011959">>,
      <<"\\U00011c50", "\\U00011c51", "\\U00011c52", "\\U00011c53", "\\U00011c54", "\\U00011c55", "\\U00011c56", "\\U00011c57", "\\U00011c58", "\\U00011c59">>,
      <<"\\U00011d50", "\\U00011d51", "\\U00011d52", "\\U00011d53", "\\U00011d54", "\\U00011d55", "\\U00011d56", "\\U00011d57", "\\U00011d58", "\\U00011d59">>,
      <<"\\U00011da0", "\\U00011da1", "\\U00011da2", "\\U00011da3", "\\U00011da4", "\\U00011da5", "\\U00011da6", "\\U00011da7", "\\U00011da8", "\\U00011da9">>,
      <<"\\U00016a60", "\\U00016a61", "\\U00016a62", "\\U00016a63", "\\U00016a64", "\\U00016a65", "\\U00016a66", "\\U00016a67", "\\U00016a68", "\\U00016a69">>,
      <<"\\U00016ac0", "\\U00016ac1", "\\U00016ac2", "\\U00016ac3", "\\U00016ac4", "\\U00016ac5", "\\U00016ac6", "\\U00016ac7", "\\U00016ac8", "\\U00016ac9">>,
      <<"\\U00016b50", "\\U00016b51", "\\U00016b52", "\\U00016b53", "\\U00016b54", "\\U00016b55", "\\U00016b56", "\\U00016b57", "\\U00016b58", "\\U00016b59">>,
      <<"\\U0001d7ce", "\\U0001d7cf", "\\U0001d7d0", "\\U0001d7d1", "\\U0001d7d2", "\\U0001d7d3", "\\U0001d7d4", "\\U0001d7d5", "\\U0001d7d6", "\\U0001d7d7">>,
      <<"\\U0001d7d8", "\\U0001d7d9", "\\U0001d7da", "\\U0001d7db", "\\U0001d7dc", "\\U0001d7dd", "\\U0001d7de", "\\U0001d7df", "\\U0001d7e0", "\\U0001d7e1">>,
      <<"\\U0001d7e2", "\\U0001d7e3", "\\U0001d7e4", "\\U0001d7e5", "\\U0001d7e6", "\\U0001d7e7", "\\U0001d7e8", "\\U0001d7e9", "\\U0001d7ea", "\\U0001d7eb">>,
      <<"\\U0001d7ec", "\\U0001d7ed", "\\U0001d7ee", "\\U0001d7ef", "\\U0001d7f0", "\\U0001d7f1", "\\U0001d7f2", "\\U0001d7f3", "\\U0001d7f4", "\\U0001d7f5">>,
      <<"\\U0001d7f6", "\\U0001d7f7", "\\U0001d7f8", "\\U0001d7f9", "\\U0001d7fa", "\\U0001d7fb", "\\U0001d7fc", "\\U0001d7fd", "\\U0001d7fe", "\\U0001d7ff">>,
      <<"\\U0001e140", "\\U0001e141", "\\U0001e142", "\\U0001e143", "\\U0001e144", "\\U0001e145", "\\U0001e146", "\\U0001e147", "\\U0001e148", "\\U0001e149">>,
      <<"\\U0001e2f0", "\\U0001e2f1", "\\U0001e2f2", "\\U0001e2f3", "\\U0001e2f4", "\\U0001e2f5", "\\U0001e2f6", "\\U0001e2f7", "\\U0001e2f8", "\\U0001e2f9">>,
      <<"\\U0001e950", "\\U0001e951", "\\U0001e952", "\\U0001e953", "\\U0001e954", "\\U0001e955", "\\U0001e956", "\\U0001e957", "\\U0001e958", "\\U0001e959">>,
      <<"\\U0001fbf0", "\\U0001fbf1", "\\U0001fbf2", "\\U0001fbf3", "\\U0001fbf4", "\\U0001fbf5", "\\U0001fbf6", "\\U0001fbf7", "\\U0001fbf8", "\\U0001fbf9">>>>

IsDigit(c) == \E r \in 1..Len(DecimalDigits) : \E d \in 1..10 : DecimalDigits[r][d] = c
DigitVal(c) ==
    (CHOOSE d \in 1..10 : \E r \in 1..Len(DecimalDigits) : DecimalDigits[r][d] = c) - 1

\* the text without the blanks around it
strip(text) ==
    IF \A i \in 1..Len(text) : text[i] \in Whitespace THEN <<>>
    ELSE SubSeq(text,
                CHOOSE i \in 1..Len(text) :
                    text[i] \notin Whitespace
                    /\ \A j \in 1..(i - 1) : text[j] \in Whitespace,
                CHOOSE i \in 1..Len(text) :
                    text[i] \notin Whitespace
                    /\ \A j \in (i + 1)..Len(text) : text[j] \in Whitespace)

\* lower case of the letters of inf, infinity and nan
lower(c) ==
    IF c = "I" THEN "i" ELSE IF c = "N" THEN "n" ELSE IF c = "F" THEN "f"
    ELSE IF c = "T" THEN "t" ELSE IF c = "Y" THEN "y" ELSE IF c = "A" THEN "a"
    ELSE c

\* the value of an exponent's digits; strtod takes 1100000000 for an exponent
\* of more than nine digits, leading zeros apart
ExpVal(digits) ==
    IF Len(Trim(digits)) > 9 THEN 1100000000
    ELSE 100000000 * Pad(Trim(digits), 9)[1] + 10000000 * Pad(Trim(digits), 9)[2]
         + 1000000 * Pad(Trim(digits), 9)[3] + 100000 * Pad(Trim(digits), 9)[4]
         + 10000 * Pad(Trim(digits), 9)[5] + 1000 * Pad(Trim(digits), 9)[6]
         + 100 * Pad(Trim(digits), 9)[7] + 10 * Pad(Trim(digits), 9)[8]
         + Pad(Trim(digits), 9)[9]

\* what float() makes of a text: whether it accepts it, and then the class
\* of the text (nan, inf or number), its sign, and for a number the digits
\* and the power of ten they are to be multiplied by
Syntax(ok, cls, neg, digits, exp) ==
    [ok |-> ok, cls |-> cls, neg |-> neg, digits |-> digits, exp |-> exp]

\* a number: the mantissa has digits, at most one point and nothing else;
\* an e or E, if there is one, is followed by [sign] digits
float_number(neg, mant, expo, hasExp) ==
    LET esigned == expo # <<>> /\ expo[1] \in {"+", "-"}
        edigits == IF expo # <<>> /\ expo[1] \in {"+", "-"} THEN Tail(expo) ELSE expo
        \* the number of digits after the point
        after   == Cardinality({i \in 1..Len(mant) :
                                   \E j \in 1..(i - 1) : mant[j] = "."})
        mdigits == SelectSeq(mant, LAMBDA c : c # ".")
        numOk   == /\ \A i \in 1..Len(mant) : IsDigit(mant[i]) \/ mant[i] = "."
                   /\ Cardinality({i \in 1..Len(mant) : mant[i] = "."}) <= 1
                   /\ \E i \in 1..Len(mant) : mant[i] # "."
                   /\ hasExp => (edigits # <<>>
                                 /\ \A i \in 1..Len(edigits) : IsDigit(edigits[i]))
    IN  IF ~numOk THEN Syntax(FALSE, "", FALSE, <<>>, 0)
        ELSE Syntax(TRUE, "number", neg,
                    [i \in 1..Len(mdigits) |-> DigitVal(mdigits[i])],
                    (IF ~hasExp THEN 0
                     ELSE (IF esigned /\ expo[1] = "-" THEN -1 ELSE 1)
                          * ExpVal([i \in 1..Len(edigits) |-> DigitVal(edigits[i])]))
                    - after)

\* the place of the first e or E of the text, or one past its end
ExpAt(body) ==
    IF \A i \in 1..Len(body) : body[i] \notin {"e", "E"} THEN Len(body) + 1
    ELSE CHOOSE i \in 1..Len(body) :
            body[i] \in {"e", "E"} /\ \A j \in 1..(i - 1) : body[j] \notin {"e", "E"}

\* How float() reads a text: blanks around it are dropped, an underscore may
\* stand between two digits, then [sign] (inf | infinity | nan | number),
\* number = digits with at most one point and at least one digit, then
\* optionally e or E, [sign], digits.
float_syntax(text) ==
    LET s    == strip(text)
        u    == SelectSeq(strip(text), LAMBDA c : c # "_")
        neg  == u # <<>> /\ u[1] = "-"
        body == IF u # <<>> /\ u[1] \in {"+", "-"} THEN Tail(u) ELSE u
        word == [i \in 1..Len(body) |-> lower(body[i])]
    IN  IF \E i \in 1..Len(s) :
              s[i] = "_" /\ ~(i > 1 /\ i < Len(s) /\ IsDigit(s[i - 1]) /\ IsDigit(s[i + 1]))
        THEN Syntax(FALSE, "", FALSE, <<>>, 0)
        ELSE IF word = <<"n", "a", "n">> THEN Syntax(TRUE, "nan", neg, <<>>, 0)
        ELSE IF word = <<"i", "n", "f">>
                \/ word = <<"i", "n", "f", "i", "n", "i", "t", "y">>
        THEN Syntax(TRUE, "inf", neg, <<>>, 0)
        ELSE float_number(neg, SubSeq(body, 1, ExpAt(body) - 1),
                          SubSeq(body, ExpAt(body) + 1, Len(body)),
                          ExpAt(body) <= Len(body))

\* float(text) succeeds
LooksNumeric(text) == float_syntax(text).ok

\* the double of mantissa q1 <= 2^53 and exponent e2
strtod_pack(neg, e2, q1) ==
    IF q1 = <<>> THEN Float("zero", neg, <<>>, 0)
    ELSE IF q1 = Double(P52)
    THEN (IF e2 + 1 > MaxExp THEN Float("inf", neg, <<>>, 0)
          ELSE Float("finite", neg, P52, e2 + 1))
    ELSE IF e2 > MaxExp THEN Float("inf", neg, <<>>, 0)
    ELSE Float("finite", neg, q1, e2)

\* q * 2^e2 for what the division by T gives: the quotient is rounded up if
\* twice the remainder is above T, or equal to it and the quotient is odd
strtod_round(neg, e2, T, qr) ==
    strtod_pack(neg, e2,
                IF \/ Less(T, Double(qr.n))
                   \/ Trim(Double(qr.n)) = Trim(T) /\ Odd(qr.q)
                THEN Inc(qr.q) ELSE qr.q)

\* the double nearest to num / den, e2 its exponent
strtod_exp(neg, num, den, e2) ==
    strtod_round(neg, e2, IF e2 > 0 THEN Times2(den, e2) ELSE den,
                 DivMod(IF e2 < 0 THEN Times2(num, -e2) ELSE num,
                        IF e2 > 0 THEN Times2(den, e2) ELSE den, 53))

\* the double nearest to num / den; limit bounds its binary exponent
strtod_ratio(neg, num, den, limit) ==
    strtod_exp(neg, num, den,
               Max((IF Less(num, den)
                    THEN -(GrowFrom[[x |-> den, y |-> num, k |-> 1, limit |-> limit,
                                     strict |-> TRUE, c |-> 0]] + 1)
                    ELSE GrowFrom[[x |-> num, y |-> den, k |-> 1, limit |-> limit,
                                   strict |-> FALSE, c |-> 0]]) - 52,
                   MinExp))

\* the double nearest to D * 10^e10, for D that neither starts nor ends with 0
strtod_scaled(neg, D, e10) ==
    IF Len(D) + e10 > 310 THEN Float("inf", neg, <<>>, 0)
    ELSE IF Len(D) + e10 < -323 THEN Float("zero", neg, <<>>, 0)
    ELSE strtod_ratio(neg, D \o Zeros(Max(e10, 0)), <<1>> \o Zeros(Max(-e10, 0)),
                      4 * (Max(Len(D) + e10, -(Len(D) + e10)) + 2))

\* the place of the last digit that is not 0
LastNonZero(d) ==
    CHOOSE i \in 1..Len(d) : d[i] # 0 /\ \A j \in (i + 1)..Len(d) : d[j] = 0

\* the double nearest to digits * 10^e10raw (ties to the even one)
strtod(neg, digits, e10raw) ==
    IF \A i \in 1..Len(digits) : digits[i] = 0 THEN Float("zero", neg, <<>>, 0)
    ELSE strtod_scaled(neg, SubSeq(Trim(digits), 1, LastNonZero(Trim(digits))),
                       e10raw + (Len(Trim(digits)) - LastNonZero(Trim(digits))))

\* float(text), for a text that looks numeric
float(text) ==
    IF float_syntax(text).cls = "nan" THEN Float("nan", FALSE, <<>>, 0)
    ELSE IF float_syntax(text).cls = "inf"
    THEN Float("inf", float_syntax(text).neg, <<>>, 0)
    ELSE strtod(float_syntax(text).neg, float_syntax(text).digits,
                float_syntax(text).exp)

\* a decimal c is within the rounding interval of the double: between L and
\* H, the ends included if the mantissa is even
InRange(odd, L, H, c) ==
    IF odd THEN Less(L, c) /\ Less(c, H)
    ELSE ~Less(c, L) /\ ~Less(H, c)

\* M cut to its first p digits, and the next decimal of p digits above it
Down(M, p) == [i \in 1..Len(M) |-> IF i <= p THEN M[i] ELSE 0]
Up(M, p)   == Inc(SubSeq(M, 1, p)) \o Zeros(Len(M) - p)

\* some decimal of p digits is within the rounding interval
Fits(odd, L, H, M, p) ==
    InRange(odd, L, H, Down(M, p)) \/ InRange(odd, L, H, Up(M, p))

\* the digits of the decimal C of n places scaled by 10^x, and its decpt
dtoa_digits(x, n, C) ==
    LET f == CHOOSE i \in 1..n : C[i] # 0 /\ \A j \in 1..(i - 1) : C[j] = 0
        l == CHOOSE i \in 1..n : C[i] # 0 /\ \A j \in (i + 1)..n : C[j] = 0
    IN  [digits |-> SubSeq(C, f, l), decpt |-> (n - f + 1) + x]

\* The decimal of p digits nearest to M: of the two around M, the one below
\* is taken if the one above is out of range, or else if it is nearer to M
\* (the even one if they are as near).
dtoa_round(odd, x, H, M, L, p) ==
    dtoa_digits(x, Len(M),
                IF \/ ~InRange(odd, L, H, Up(M, p))
                   \/ /\ InRange(odd, L, H, Down(M, p))
                      /\ \/ Down(M, p) = M
                         \/ M[p + 1] < 5
                         \/ /\ M[p + 1] = 5
                            /\ \A i \in (p + 2)..Len(M) : M[i] = 0
                            /\ M[p] % 2 = 0
                THEN Down(M, p) ELSE Up(M, p))

\* the decimal with the fewest digits within the rounding interval from L to
\* H of the double M, the three of one length
dtoa_padded(odd, x, H, M, L) ==
    dtoa_round(odd, x, H, M, L,
               CHOOSE k \in 1..Len(M) :
                   Fits(odd, L, H, M, k) /\ (k = 1 \/ ~Fits(odd, L, H, M, k - 1)))

\* the same for H0, M0 and L0 of any lengths
dtoa_shortest(odd, x, H0, M0, L0) ==
    dtoa_padded(odd, x, Pad(H0, Len(H0) + 1), Pad(M0, Len(H0) + 1),
                Pad(L0, Len(H0) + 1))

\* a * 2^s as a multiple of 10^s if s < 0
Scale(a, s) ==
    Trim(IF s >= 0 THEN Times2(a, s)
         ELSE Repeated[[a |-> a, n |-> -s, step |-> "times5"]])

\* The shortest decimal that reads back as q * 2^e2, the nearest to it of that
\* length: its digits, and decpt with value = 0.digits * 10^decpt.  With m4
\* four times the mantissa, the rounding interval reaches half way to the
\* next double above and below, and a quarter below if that is nearer.
dtoa(q, e2) ==
    dtoa_shortest(Odd(q), IF e2 - 2 >= 0 THEN 0 ELSE e2 - 2,
                  Scale(Inc(Inc(Times2(q, 2))), e2 - 2),
                  Scale(Times2(q, 2), e2 - 2),
                  Scale(Sub(Times2(q, 2),
                            IF q = P52 /\ e2 > MinExp THEN <<1>> ELSE <<2>>),
                        e2 - 2))

\* the characters of a natural number
ToChars(a) == [i \in 1..Len(a) |-> Digit(a[i])]

\* the text of sign 0.digits * 10^decpt: positional for 1e-4 <= |f| < 1e16,
\* else with an exponent of at least two digits
repr_digits(sign, d) ==
    LET n    == Len(d.digits)
        ex   == d.decpt - 1
        exa  == IF d.decpt - 1 < 0 THEN -(d.decpt - 1) ELSE d.decpt - 1
    IN  IF d.decpt > 16 \/ d.decpt < -3
        THEN sign \o <<Digit(d.digits[1])>>
             \o (IF n > 1 THEN <<".">> \o ToChars(Tail(d.digits)) ELSE <<>>)
             \o <<"e", IF ex < 0 THEN "-" ELSE "+">>
             \o (IF exa >= 100 THEN <<Digit(exa \div 100)>> ELSE <<>>)
             \o <<Digit(exa \div 10), Digit(exa)>>
        ELSE IF d.decpt <= 0
        THEN sign \o <<"0", ".">> \o ToChars(Zeros(-d.decpt)) \o ToChars(d.digits)
        ELSE IF d.decpt >= n
        THEN sign \o ToChars(d.digits) \o ToChars(Zeros(d.decpt - n)) \o <<".", "0">>
        ELSE sign \o ToChars(SubSeq(d.digits, 1, d.decpt)) \o <<".">>
             \o ToChars(SubSeq(d.digits, d.decpt + 1, n))

\* repr(f)
repr(f) ==
    IF f.cls = "nan" THEN <<"n", "a", "n">>
    ELSE IF f.cls = "inf" THEN (IF f.neg THEN <<"-">> ELSE <<>>) \o <<"i", "n", "f">>
    ELSE IF f.cls = "zero" THEN (IF f.neg THEN <<"-">> ELSE <<>>) \o <<"0", ".", "0">>
    ELSE repr_digits(IF f.neg THEN <<"-">> ELSE <<>>, dtoa(f.q, f.e2))

\* repr(float(text)) for a text that looks numeric
float_repr(text) == repr(float(text))

\* |f| for a whole f
whole_digits(f) ==
    IF f.cls = "zero" THEN <<>>
    ELSE IF f.e2 >= 0 THEN Times2(f.q, f.e2)
    ELSE Repeated[[a |-> f.q, n |-> -f.e2, step |-> "halve"]]

\* f.is_integer(): no bit of the mantissa is below the point
is_integer(f) ==
    \/ f.cls = "zero"
    \/ /\ f.cls = "finite"
       /\ \/ f.e2 >= 0
          \/ -f.e2 <= 52 /\ Times2(whole_digits(f), -f.e2) = f.q

\* the cast of f to int64 gives back f: f is whole and -2^63 <= f < 2^63
fits_int64(f) ==
    /\ is_integer(f)
    /\ \/ Less(whole_digits(f), Times2(<<1>>, 63))
       \/ f.neg /\ whole_digits(f) = Times2(<<1>>, 63)

\* str(int(f)) for a whole f
int_repr(f) ==
    IF whole_digits(f) = <<>> THEN <<"0">>
    ELSE (IF f.neg THEN <<"-">> ELSE <<>>) \o ToChars(whole_digits(f))

\* the float of this repr is a whole number
IsWhole(text) == is_integer(float(text))

\* a float64 column: int64 if the cast to int64 loses nothing (a missing
\* value or an infinity cannot be cast)
astype_int64(floats) ==
    IF \A i \in 1..Len(floats) : fits_int64(floats[i])
    THEN [i \in 1..Len(floats) |-> Int64(int_repr(floats[i]))]
    ELSE [i \in 1..Len(floats) |->
            IF floats[i].cls = "nan" THEN NaN ELSE Float64(repr(floats[i]))]

\* pandas' conversion of one column of read_json (dtype left at its default):
\* an object column all of whose values float() accepts becomes float64, and
\* then int64 if it can
try_convert_data(column) ==
    IF \/ \A i \in 1..Len(column) : column[i] = NaN
       \/ \E i \in 1..Len(column) : column[i] # NaN /\ ~LooksNumeric(column[i])
    THEN column
    ELSE astype_int64([i \in 1..Len(column) |->
                          IF column[i] = NaN THEN Float("nan", FALSE, <<>>, 0)
                          ELSE float(column[i])])

\* What reading a file gives: get_object fails, or a data frame: its columns
\* and its rows (a field a line does not carry, or carries as null, is NaN).
Unreadable == [readable |-> FALSE, columns |-> {}, rows |-> <<>>]
Frame(columns, rows) == [readable |-> TRUE, columns |-> columns, rows |-> rows]

\* the keys the lines carry
ColumnsOf(lines) ==
    {c \in {"id", "title"} : \E i \in 1..Len(lines) : lines[i][c] # Absent}

\* a field of a line as a data frame holds it
Cell(v) == IF v = Absent \/ v = Null THEN NaN ELSE v

\* a variant of read_json for which every object reads as an empty file
read_json_lenient(n, kind) == Frame({}, <<>>)

\* s3.get_object + pd.read_json(lines=True) on file n, a file of the given kind
read_json(n, kind) ==
    IF kind = "unreadable" THEN Unreadable
    ELSE Frame(ColumnsOf(Lines(n, kind)),
               [i \in 1..Len(Lines(n, kind)) |->
                   [id    |-> try_convert_data(
                                  [j \in 1..Len(Lines(n, kind)) |->
                                      Cell(Lines(n, kind)[j].id)])[i],
                    title |-> try_convert_data(
                                  [j \in 1..Len(Lines(n, kind)) |->
                                      Cell(Lines(n, kind)[j].title)])[i]]])

\* read_json of every file of the model, computed once
frames == [n \in 1..MaxFiles |-> [kind \in FileKinds |-> read_json(n, kind)]]

\* 'id' in df.columns
HasColumn(file, c) == c \in file.columns

\* df[['id', 'title']].dropna()
dropna(df) ==
    LET Keep(r) == r.id # NaN /\ r.title # NaN
    IN  SelectSeq(df, Keep)

\* paginator.paginate(...): the keys of the bucket in ascending order
RECURSIVE list_objects_v2(_)
list_objects_v2(S) ==
    IF S = {} THEN <<>>
    ELSE LET m == CHOOSE k \in S : \A o \in S : ~KeyLess(o, k)
         IN  <<m>> \o list_objects_v2(S \ {m})

\* the .jsonl keys of the listing, in listing order
JsonlOnly(listing) == SelectSeq(listing, endswith_jsonl)

RECURSIVE InsertDesc(_, _)
InsertDesc(k, s) ==
    IF s = <<>> THEN <<k>>
    ELSE IF KeyLess(Head(s), k) THEN <<k>> \o s
    ELSE <<Head(s)>> \o InsertDesc(k, Tail(s))

\* all_files.sort(reverse=True)
RECURSIVE sort_reverse(_)
sort_reverse(s) ==
    IF s = <<>> THEN <<>> ELSE InsertDesc(Head(s), sort_reverse(Tail(s)))

(***************************************************************************)
(* Dispatcher: dispatch_dataframe.                                         *)
(***************************************************************************)
AllowedChars ==
    { "a", "b", "c", "d", "e", "f", "g", "h", "i", "j", "k", "l", "m",
      "n", "o", "p", "q", "r", "s", "t", "u", "v", "w", "x", "y", "z",
      "A", "B", "C", "D", "E", "F", "G", "H", "I", "J", "K", "L", "M",
      "N", "O", "P", "Q", "R", "S", "T", "U", "V", "W", "X", "Y", "Z",
      "0", "1", "2", "3", "4", "5", "6", "7", "8", "9", "_", "-" }

\* re.sub(r'[^a-zA-Z0-9_-]', '_', str(row['id']))[:80]
safe_id(id) ==
    LET sub == [i \in 1..Len(id) |-> IF id[i] \in AllowedChars THEN id[i] ELSE "_"]
    IN  SubSeq(sub, 1, Min(Len(sub), IdLimit))

\* json.dumps({'paper_id': ..., 'title': ...}): the text of a JSON object
json_dumps(paper_id, title) ==
    [json |-> "object", paper_id |-> paper_id, title |-> title]

\* str(x) of a text, a number, NaN or None
str(x) ==
    IF x = NaN THEN <<"n", "a", "n">>
    ELSE IF x = None THEN <<"N", "o", "n", "e">>
    ELSE IF IsNumber(x) THEN Tail(x)
    ELSE x

\* the entries of one chunk
Entries(chunk) ==
    [j \in 1..Len(chunk) |->
        [Id |-> safe_id(str(chunk[j].id)),
         MessageBody |-> json_dumps(chunk[j].id, str(chunk[j].title))]]

\* What sqs.send_message_batch can do with one call: accept every entry,
\* answer with the first entry in its Failed list, or raise.
SendOutcomes == {"ok", "partial", "raise"}

Accepted(entries, outcome) ==
    IF outcome = "ok" THEN entries
    ELSE IF outcome = "partial" THEN Tail(entries)
    ELSE <<>>

\* the bodies the queue accepted from a sequence of send_message_batch calls
RECURSIVE AcceptedBodies(_)
AcceptedBodies(calls) ==
    IF calls = <<>> THEN <<>>
    ELSE LET acc == Accepted(Head(calls).entries, Head(calls).outcome)
         IN  [j \in 1..Len(acc) |-> acc[j].MessageBody] \o AcceptedBodies(Tail(calls))

NumCalls(df) == (Len(df) + batch_size - 1) \div batch_size

\* a variant of iloc whose slices are one row short
iloc_short(df, i, j) == SubSeq(df, i + 1, Min(j - 1, Len(df)))

\* df.iloc[i:j]
iloc(df, i, j) == SubSeq(df, i + 1, Min(j, Len(df)))

\* for i in range(0, len(df), batch_size): ...; outs[c] is what the c-th
\* send_message_batch call does.
RECURSIVE dispatch_loop(_, _, _, _, _)
dispatch_loop(df, outs, i, calls, message_count) ==
    IF i >= Len(df)
    THEN [calls |-> calls, message_count |-> message_count, raised |-> FALSE]
    ELSE LET chunk   == iloc(df, i, i + batch_size)
             entries == Entries(chunk)
             o       == outs[(i \div batch_size) + 1]
             call    == [entries |-> entries, outcome |-> o]
         IN  IF o = "raise"
             THEN [calls |-> Append(calls, call),
                   message_count |-> message_count, raised |-> TRUE]
             ELSE dispatch_loop(df, outs, i + batch_size, Append(calls, call),
                                message_count + Len(entries))

dispatch_dataframe(df, outs) ==
    IF df = <<>>
    THEN [calls |-> <<>>, message_count |-> 0, raised |-> FALSE]
    ELSE dispatch_loop(df, outs, 0, <<>>, 0)

(***************************************************************************)
(* Dispatcher: handler.                                                    *)
(***************************************************************************)
\* One observable effect of a dispatcher invocation.
Ev(e, i) ==
    [ev |-> e, inv |-> i, idx |-> 0, key |-> OtherKey, t |-> 0,
     n |-> 0, accepted |-> 0, outcome |-> "", start_index |-> 0, file_list |-> <<>>,
     status |-> 0, body |-> "", files |-> 0, jobs |-> 0]

\* context.get_remaining_time_in_millis(): the readings around the threshold
RemainingTimes == {TimeThreshold - 1, TimeThreshold}

\* a variant of TimeLow whose threshold is off by one
TimeLowSkewed(t) == t < TimeThreshold - 1

\* context.get_remaining_time_in_millis() < 30000
TimeLow(t) == t < TimeThreshold

\* a variant of next_start_index that resumes after the current file
next_start_index_skip(current_file_index) == current_file_index + 1

\* next_start_index = current_file_index
next_start_index(current_file_index) == current_file_index

\* files_to_process = all_files[start_index:]
files_to_process(all_files, start_index) ==
    SubSeq(all_files, start_index + 1, Len(all_files))

NoRun == [inv |-> 0, start_index |-> 0, all_files |-> <<>>, idx |-> 0,
          total_jobs_dispatched |-> 0, i |-> 0, message_count |-> 0]

\* Positions of an invocation of the handler:
\*   "loop"     line 64, at the head of the for loop
\*   "handoff"  line 70, the reading of line 68 was below the threshold
\*   "invoked"  line 78, lambda_client.invoke has returned
\*   "read"     line 83, the reading of line 68 was not below the threshold
\*   "send"     line 141, inside dispatch_dataframe for the group at hand
\*   "raising"  line 99, an exception is on its way out of the handler
\*   "done"     the invocation has returned or raised
\* Invocations run concurrently: an invocation started by an asynchronous
\* invoke runs beside the one that invoked it.

\* Lines 56-61: the end of the handler's prologue, for invocation inv.
Enter(inv, start_index, all_files, startEv) ==
    IF files_to_process(all_files, start_index) = <<>>
    THEN [events |-> <<startEv,
                [Ev("return", inv) EXCEPT !.status = 200, !.body = "all_dispatched"]>>,
          pc |-> "done", locals |-> NoRun]
    ELSE [events |-> <<startEv>>, pc |-> "loop",
          locals |-> [NoRun EXCEPT !.inv = inv, !.start_index = start_index,
                                   !.all_files = all_files]]

\* event.get('start_index', 0) of an event that is no hand-off payload
FirstStartIndexes == {0, 1}

\* The first invocation: the event carries no file_list (lines 26-59).
\* envOk: SQS_QUEUE_URL and S3_BUCKET_NAME are set; they are read once per
\* deployment, so a continuation runs with them set.  Nothing runs beside
\* the first invocation before its first hand-off.
DFirst ==
    /\ dpc = <<>>
    /\ \E envOk \in BOOLEAN : \E listOk \in BOOLEAN :
       \E start_index \in FirstStartIndexes :
         LET startEv == [Ev("start", 1) EXCEPT !.body = "first",
                                               !.start_index = start_index]
             e == Enter(1, start_index,
                        sort_reverse(JsonlOnly(list_objects_v2(bucket))), startEv)
         IN  IF ~envOk
             THEN /\ dlog' = dlog \o <<startEv,
                         [Ev("return", 1) EXCEPT !.status = 500, !.body = "env_not_set"]>>
                  /\ dpc' = <<"done">>
                  /\ run' = <<NoRun>>
             ELSE IF listOk
             THEN /\ dlog' = dlog \o e.events
                  /\ dpc' = <<e.pc>>
                  /\ run' = <<e.locals>>
             ELSE /\ dlog' = dlog \o <<startEv, Ev("raise", 1)>>
                  /\ dpc' = <<"done">>
                  /\ run' = <<NoRun>>
    /\ UNCHANGED <<bucket, content, pending, queue>>
    /\ UNCHANGED wvars
    /\ UNCHANGED fvars

\* a field of a line as pd.DataFrame([json.loads(line)]) holds it
TestCell(v) == IF v = Null THEN None ELSE v

\* run_test_mode (lines 103-134): what it does and what it returns; outs is
\* what its send_message_batch call does.
run_test_mode(listOk, outs) ==
    LET startEv == [Ev("start", 1) EXCEPT !.body = "test"]
        raise   == Ev("raise", 1)
        jsonl   == JsonlOnly(list_objects_v2(bucket))
        first_file_key == Head(jsonl)
        kind    == content[first_file_key]
        read    == [Ev("test_read", 1) EXCEPT !.key = first_file_key]
        lines   == Lines(first_file_key.name, kind)
        record  == Head(lines)
        df      == <<[id |-> TestCell(record.id), title |-> TestCell(record.title)]>>
        d       == dispatch_dataframe(df, outs)
        sends   == [c \in 1..Len(d.calls) |->
                      [Ev("send", 1) EXCEPT !.key = first_file_key,
                          !.n = Len(d.calls[c].entries),
                          !.accepted = Len(Accepted(d.calls[c].entries,
                                                    d.calls[c].outcome)),
                          !.outcome = d.calls[c].outcome]]
    IN  IF ~listOk
        THEN [events |-> <<startEv, raise>>, calls |-> <<>>]
        ELSE IF jsonl = <<>>
        THEN [events |-> <<startEv, [Ev("return", 1) EXCEPT
                              !.status = 404, !.body = "no_test_file"]>>,
              calls |-> <<>>]
        ELSE IF kind = "unreadable" \/ lines = <<>>
        THEN [events |-> <<startEv, read, raise>>, calls |-> <<>>]
        ELSE IF record.id = Absent \/ record.title = Absent
        THEN [events |-> <<startEv, read, [Ev("return", 1) EXCEPT
                              !.status = 400, !.body = "test_record_incomplete"]>>,
              calls |-> <<>>]
        ELSE IF d.raised
        THEN [events |-> <<startEv, read>> \o sends \o <<raise>>, calls |-> d.calls]
        ELSE [events |-> <<startEv, read>> \o sends \o
                         <<[Ev("return", 1) EXCEPT !.status = 200, !.body = "test_done"]>>,
              calls |-> d.calls]

\* The first invocation with event['test_mode'] set (lines 26-32, 103-134);
\* it invokes nothing, so nothing runs beside it.
DTest ==
    /\ dpc = <<>>
    /\ dpc' = <<"done">>
    /\ run' = <<NoRun>>
    /\ \E envOk \in BOOLEAN : \E listOk \in BOOLEAN :
       \E outs \in [1..1 -> SendOutcomes] :
         IF ~envOk
         THEN /\ dlog' = dlog \o <<[Ev("start", 1) EXCEPT !.body = "test"],
                     [Ev("return", 1) EXCEPT !.status = 500, !.body = "env_not_set"]>>
              /\ queue' = queue
         ELSE LET t == run_test_mode(listOk, outs)
              IN  /\ dlog' = dlog \o t.events
                  /\ queue' = queue \o AcceptedBodies(t.calls)
    /\ UNCHANGED <<bucket, content, pending>>
    /\ UNCHANGED wvars
    /\ UNCHANGED fvars

\* A continuation: the Lambda service starts an invocation with the payload
\* of an accepted invoke as its event (lines 37-59), beside the invocations
\* that are still running.  The service starts MaxInvocations invocations at
\* most and runs MaxConcurrent of them at a time: the bounds of the model on
\* the length of a chain and on the function's concurrency.
DContinue ==
    /\ pending # <<>>
    /\ Len(dpc) < MaxInvocations
    /\ Cardinality({k \in 1..Len(dpc) : dpc[k] # "done"}) < MaxConcurrent
    /\ pending' = Tail(pending)
    /\ LET event   == Head(pending)
           inv     == Len(dpc) + 1
           startEv == [Ev("start", inv) EXCEPT
                          !.body = "continuation",
                          !.start_index = event.start_index,
                          !.file_list = event.file_list]
           e       == Enter(inv, event.start_index, event.file_list, startEv)
       IN  /\ dlog' = dlog \o e.events
           /\ dpc' = Append(dpc, e.pc)
           /\ run' = Append(run, e.locals)
    /\ UNCHANGED <<bucket, content, queue>>
    /\ UNCHANGED wvars
    /\ UNCHANGED fvars

\* the invocations started so far
Invocations == 1..Len(dpc)

\* Line 68: an invocation at the head of the loop, a group left, reads the
\* remaining time.
DCheck ==
    \E k \in Invocations :
       /\ dpc[k] = "loop"
       /\ run[k].idx < Len(files_to_process(run[k].all_files, run[k].start_index))
       /\ \E t \in RemainingTimes :
            /\ dlog' = Append(dlog, [Ev("check", k) EXCEPT
                                        !.t = t, !.idx = run[k].start_index + run[k].idx])
            /\ dpc' = [dpc EXCEPT ![k] = IF TimeLow(t) THEN "handoff" ELSE "read"]
       /\ UNCHANGED <<bucket, content, pending, run, queue>>
       /\ UNCHANGED wvars
       /\ UNCHANGED fvars

\* Lines 70-77: lambda_client.invoke(InvocationType='Event').  The Lambda
\* service either accepts the call, and holds the payload for an invocation
\* it starts on its own, or the call raises and nothing is held.
DHandOff ==
    \E k \in Invocations : \E accepted \in BOOLEAN :
       /\ dpc[k] = "handoff"
       /\ dlog' = Append(dlog, [Ev("invoke", k) EXCEPT
               !.start_index = next_start_index(run[k].start_index + run[k].idx),
               !.file_list = run[k].all_files,
               !.outcome = IF accepted THEN "ok" ELSE "raise"])
       /\ pending' = IF accepted
                     THEN Append(pending,
                            [start_index |->
                                next_start_index(run[k].start_index + run[k].idx),
                             file_list |-> run[k].all_files])
                     ELSE pending
       /\ dpc' = [dpc EXCEPT ![k] = IF accepted THEN "invoked" ELSE "raising"]
       /\ UNCHANGED <<bucket, content, run, queue>>
       /\ UNCHANGED wvars
       /\ UNCHANGED fvars

\* Lines 78-79: the return after the hand-off.
DReturn ==
    \E k \in Invocations :
       /\ dpc[k] = "invoked"
       /\ dlog' = Append(dlog, [Ev("return", k) EXCEPT !.status = 200, !.body = "handoff"])
       /\ dpc' = [dpc EXCEPT ![k] = "done"]
       /\ run' = [run EXCEPT ![k] = NoRun]
       /\ UNCHANGED <<bucket, content, pending, queue>>
       /\ UNCHANGED wvars
       /\ UNCHANGED fvars

\* file_key of the iteration the invocation is in
file_key(r) == r.all_files[r.start_index + r.idx + 1]

\* Lines 83-84: get_object and read_json of the group at hand.
DRead ==
    \E k \in Invocations :
       /\ dpc[k] = "read"
       /\ dlog' = Append(dlog, [Ev("read", k) EXCEPT
                                   !.key = file_key(run[k]),
                                   !.idx = run[k].start_index + run[k].idx])
       /\ dpc' = [dpc EXCEPT ![k] =
                     IF frames[file_key(run[k]).name][content[file_key(run[k])]].readable
                     THEN "send" ELSE "raising"]
       /\ run' = [run EXCEPT ![k].i = 0, ![k].message_count = 0]
       /\ UNCHANGED <<bucket, content, pending, queue>>
       /\ UNCHANGED wvars
       /\ UNCHANGED fvars

\* Lines 86-88: the frame dispatch_dataframe is given for a file read; a file
\* that lacks a column is skipped (line 86), which is as dispatching no row.
group_df(file) ==
    IF HasColumn(file, "id") /\ HasColumn(file, "title") THEN dropna(file.rows)
    ELSE <<>>

\* Lines 141-151: one iteration of dispatch_dataframe's loop in invocation k,
\* df being the frame of the group at hand; the send_message_batch call
\* returns, with all or all but the first entry accepted, or raises.
SendChunk(k, df) ==
    /\ run[k].i < Len(df)
    /\ \E o \in SendOutcomes :
         /\ dlog' = Append(dlog, [Ev("send", k) EXCEPT
               !.key = file_key(run[k]),
               !.n = Len(Entries(iloc(df, run[k].i, run[k].i + batch_size))),
               !.accepted = Len(Accepted(
                    Entries(iloc(df, run[k].i, run[k].i + batch_size)), o)),
               !.outcome = o])
         /\ queue' = queue \o AcceptedBodies(
               <<[entries |-> Entries(iloc(df, run[k].i, run[k].i + batch_size)),
                  outcome |-> o]>>)
         /\ IF o = "raise"
            THEN /\ dpc' = [dpc EXCEPT ![k] = "raising"]
                 /\ run' = run
            ELSE /\ dpc' = dpc
                 /\ run' = [run EXCEPT
                       ![k].i = @ + batch_size,
                       ![k].message_count =
                           @ + Len(Entries(iloc(df, run[k].i, run[k].i + batch_size)))]

DSend ==
    \E k \in Invocations :
       /\ dpc[k] = "send"
       /\ SendChunk(k, group_df(frames[file_key(run[k]).name][content[file_key(run[k])]]))
       /\ UNCHANGED <<bucket, content, pending>>
       /\ UNCHANGED wvars
       /\ UNCHANGED fvars

\* Lines 89-91: dispatch_dataframe has returned; the group is counted and the
\* loop goes on with the next file.
DGroup ==
    \E k \in Invocations :
       /\ dpc[k] = "send"
       /\ run[k].i >= Len(group_df(frames[file_key(run[k]).name][content[file_key(run[k])]]))
       /\ dlog' = Append(dlog, [Ev("group", k) EXCEPT
                                   !.key = file_key(run[k]),
                                   !.idx = run[k].start_index + run[k].idx,
                                   !.jobs = run[k].message_count])
       /\ dpc' = [dpc EXCEPT ![k] = "loop"]
       /\ run' = [run EXCEPT ![k].idx = @ + 1,
                             ![k].total_jobs_dispatched = @ + run[k].message_count]
       /\ UNCHANGED <<bucket, content, pending, queue>>
       /\ UNCHANGED wvars
       /\ UNCHANGED fvars

\* Lines 99-101: an exception raised inside the try leaves the handler.
DRaise ==
    \E k \in Invocations :
       /\ dpc[k] = "raising"
       /\ dlog' = Append(dlog, Ev("raise", k))
       /\ dpc' = [dpc EXCEPT ![k] = "done"]
       /\ run' = [run EXCEPT ![k] = NoRun]
       /\ UNCHANGED <<bucket, content, pending, queue>>
       /\ UNCHANGED wvars
       /\ UNCHANGED fvars

\* Lines 93-97: the loop is exhausted.
SummaryEvent(r) ==
    [Ev("return", r.inv) EXCEPT
        !.status = 200, !.body = "summary",
        !.files = Len(files_to_process(r.all_files, r.start_index)),
        !.jobs = r.total_jobs_dispatched]

DFinish ==
    \E k \in Invocations :
       /\ dpc[k] = "loop"
       /\ run[k].idx = Len(files_to_process(run[k].all_files, run[k].start_index))
       /\ dlog' = Append(dlog, SummaryEvent(run[k]))
       /\ dpc' = [dpc EXCEPT ![k] = "done"]
       /\ run' = [run EXCEPT ![k] = NoRun]
       /\ UNCHANGED <<bucket, content, pending, queue>>
       /\ UNCHANGED wvars
       /\ UNCHANGED fvars

NoWRun == [delivery |-> <<>>, idx |-> 0]
NoResult == [done |-> FALSE, calls |-> <<>>, message_count |-> 0, raised |-> FALSE]

DispatcherInit ==
    /\ bucket \in SUBSET Keys
    /\ OtherKey \in bucket
    /\ content \in [Keys -> FileKinds]
    /\ \A k \in Keys : (k \notin bucket \/ ~endswith_jsonl(k)) => content[k] = "unreadable"
    /\ pending = <<>>
    /\ dpc = <<>>
    /\ run = <<>>
    /\ queue = <<>>
    /\ dlog = <<>>
    /\ acked = {}
    /\ sink = {}
    /\ wpc = "idle"
    /\ wrun = NoWRun
    /\ wCount = 0
    /\ wlog = <<>>
    /\ frame = <<>>
    /\ result = NoResult

DispatcherNext ==
    \/ DFirst \/ DTest \/ DContinue
    \/ DCheck \/ DHandOff \/ DReturn
    \/ DRead \/ DSend \/ DGroup \/ DRaise \/ DFinish

DispatcherSpec == DispatcherInit /\ [][DispatcherNext]_vars

(***************************************************************************)
(* Dispatcher: what the log of a chain shows.                              *)
(***************************************************************************)
At(e) == {p \in 1..Len(dlog) : dlog[p].ev = e}

\* the .jsonl keys of the bucket
SourceGroups == {k \in bucket : k.ext = "jsonl"}

\* s lists exactly the source groups, largest key first, each once
IsDescendingGroupList(s) ==
    /\ {s[i] : i \in 1..Len(s)} = SourceGroups
    /\ \A i \in 1..Len(s) : \A j \in 1..Len(s) : i < j => s[i].name > s[j].name

\* the keys of the groups processed by the chain, in the order processed
ProcessedKeys ==
    LET g == SelectSeq(dlog, LAMBDA e : e.ev = "group")
    IN  [i \in 1..Len(g) |-> g[i].key]

\* the keys read by the chain, in the order read
ReadKeys ==
    LET g == SelectSeq(dlog, LAMBDA e : e.ev = "read")
    IN  [i \in 1..Len(g) |-> g[i].key]

\* the chain has reached its completion return (line 59 or line 97)
ChainCompleted ==
    \E p \in At("return") : dlog[p].body \in {"summary", "all_dispatched"}

\* the first event of the chain carries no start_index of its own
FromStart == \E p \in At("start") : dlog[p].body = "first" /\ dlog[p].start_index = 0

\* the invoke calls the Lambda service accepted
Invoked == {p \in At("invoke") : dlog[p].outcome = "ok"}

\* what invocation k did, in order
Own(k) == SelectSeq(dlog, LAMBDA e : e.inv = k)

\* C1: once a chain of invocations that began at start_index 0 has reached
\* the completion return, however its invocations overlapped, the groups read
\* and the groups dispatched across the whole chain are the source groups in
\* descending order, each exactly once; and every hand-off payload carries
\* that same descending list, the one the first invocation built.
C1_ContinuationCorrect ==
    /\ (ChainCompleted /\ FromStart) =>
          /\ IsDescendingGroupList(ProcessedKeys)
          /\ ReadKeys = ProcessedKeys
    /\ \A p \in At("invoke") : IsDescendingGroupList(dlog[p].file_list)

\* a chain of three invocations (two hand-offs) over two groups, one group
\* dispatched by the second invocation and one by the third, has completed
\* before the first invocation returned from its hand-off
C1_Witness ==
    /\ FromStart
    /\ Cardinality(Invoked) = 2
    /\ Len(ProcessedKeys) = 2
    /\ \E p \in At("group") : \E q \in At("group") : dlog[p].inv # dlog[q].inv
    /\ \E p \in At("return") : \E q \in At("return") :
          /\ dlog[p].body = "summary"
          /\ dlog[q].body = "handoff"
          /\ dlog[q].inv = 1
          /\ p < q

\* what an invocation does around its remaining-time checks, invoke being
\* required to succeed (strict) or allowed to raise
HandOffSteps(strict) ==
    \A k \in Invocations :
       LET own == Own(k)
       IN  /\ \A p \in 1..Len(own) :
                own[p].ev = "read" =>
                   /\ p > 1
                   /\ own[p - 1].ev = "check"
                   /\ own[p - 1].idx = own[p].idx
                   /\ own[p - 1].t >= 30000
           /\ \A p \in 1..Len(own) :
                (own[p].ev = "check" /\ own[p].t < 30000) =>
                   /\ p = Len(own) => dpc[k] = "handoff"
                   /\ p < Len(own) =>
                         /\ own[p + 1].ev = "invoke"
                         /\ own[p + 1].start_index = own[p].idx
                         /\ IsDescendingGroupList(own[p + 1].file_list)
                         /\ strict => own[p + 1].outcome = "ok"
                         /\ \A q \in 1..Len(own) :
                               own[q].ev = "group" => own[q].idx < own[p].idx
                   /\ p + 1 = Len(own) =>
                         dpc[k] = (IF own[p + 1].outcome = "ok"
                                   THEN "invoked" ELSE "raising")
                   /\ p + 1 < Len(own) =>
                         /\ p + 2 = Len(own)
                         /\ dpc[k] = "done"
                         /\ IF own[p + 1].outcome = "ok"
                            THEN own[p + 2].ev = "return" /\ own[p + 2].status = 200
                            ELSE own[p + 2].ev = "raise"
           /\ \A p \in 1..Len(own) : \A q \in 1..Len(own) :
                (own[p].ev = "invoke" /\ own[q].ev = "invoke") => p = q

\* each accepted invoke leads to one invocation at most, started with the
\* payload of the invoke
OneContinuationEach ==
    /\ Len(pending) + Cardinality({p \in At("start") : dlog[p].body = "continuation"})
          = Cardinality(Invoked)
    /\ \A p \in At("start") :
          dlog[p].body = "continuation" =>
             \E q \in Invoked :
                /\ q < p
                /\ dlog[q].inv = dlog[p].inv - 1
                /\ dlog[q].start_index = dlog[p].start_index
                /\ dlog[q].file_list = dlog[p].file_list

\* C2 as stated: in every invocation, every read of a group directly follows
\* a remaining-time check for that group that read at least 30000 ms; a
\* check that reads below 30000 ms is followed by one asynchronous
\* invocation, which succeeds, whose payload is the invocation's file list
\* and the index of the group just checked, then by a return with status
\* 200, and by nothing else of that invocation; no invocation triggers more
\* than one continuation.
C2_HandOffProtocol ==
    HandOffSteps(TRUE) /\ OneContinuationEach

\* C2 amended: as above, except that the invoke call may fail: when it
\* raises, no continuation is triggered and the invocation ends by raising
\* instead of returning status 200.
C2_HandOffUnlessInvokeFails ==
    HandOffSteps(FALSE) /\ OneContinuationEach

\* an invocation dispatched a group, then read a low remaining time and
\* handed off; the continuation started before that invocation returned
C2_Witness ==
    \E p \in Invoked :
       /\ dlog[p].start_index = 1
       /\ \E q \in At("send") : q < p /\ dlog[q].inv = dlog[p].inv
       /\ \E q \in At("start") : \E r \in At("return") :
             /\ dlog[q].inv = dlog[p].inv + 1
             /\ dlog[r].inv = dlog[p].inv
             /\ p < q /\ q < r

\* entries handed to send_message_batch calls that returned, over the chain
RECURSIVE SentCount(_)
SentCount(log) ==
    IF log = <<>> THEN 0
    ELSE (IF Head(log).ev = "send" /\ Head(log).outcome # "raise"
          THEN Head(log).n ELSE 0) + SentCount(Tail(log))

\* C3: the summary returned by the completing invocation counts the files
\* processed and the messages sent by all invocations of the chain.
C3_ChainSummary ==
    \A p \in At("return") :
       dlog[p].body = "summary" =>
          /\ dlog[p].files = Cardinality(At("group"))
          /\ dlog[p].jobs = SentCount(dlog)

\* entries the queue accepted in the send calls of invocation inv for key
RECURSIVE AcceptedCount(_, _, _)
AcceptedCount(log, inv, key) ==
    IF log = <<>> THEN 0
    ELSE (IF Head(log).ev = "send" /\ Head(log).inv = inv /\ Head(log).key = key
          THEN Head(log).accepted ELSE 0)
         + AcceptedCount(Tail(log), inv, key)

\* C4: a failed send_message_batch call does not abort the invocation (the
\* invocation does not raise because of it), and the count of dispatched
\* messages of a group leaves out the entries the queue did not accept.
C4_PublishFailureTolerated ==
    /\ \A p \in At("send") :
          dlog[p].outcome = "raise" =>
             ~(p + 1 <= Len(dlog) /\ dlog[p + 1].ev = "raise")
    /\ \A p \in At("group") :
          dlog[p].jobs = AcceptedCount(dlog, dlog[p].inv, dlog[p].key)

(***************************************************************************)
(* Worker: messages, OpenAlex responses, result objects.                   *)
(***************************************************************************)
\* The text of a message body: a JSON object (a key it does not carry is
\* None), a JSON value that is no object, or text that is no JSON.
JsonObject(paper_id, title) == json_dumps(paper_id, title)
JsonArray   == [json |-> "array", paper_id |-> None, title |-> None]
JsonInvalid == [json |-> "invalid", paper_id |-> None, title |-> None]

\* json.loads(original_message) followed by the two .get calls
json_loads(text) ==
    IF text.json = "invalid"
    THEN [error |-> "JSONDecodeError", paper_id |-> None, title |-> None]
    ELSE IF text.json = "object"
    THEN [error |-> "", paper_id |-> text.paper_id, title |-> text.title]
    ELSE [error |-> "AttributeError", paper_id |-> None, title |-> None]

\* `not x` for a string, a number or None: a number is falsy when it is zero,
\* of either sign
Falsy(x) ==
    \/ x = None
    \/ x = <<>>
    \/ IsNumber(x) /\ float(Tail(x)).cls = "zero"

\* f"{paper_id}"
fstr(x) == str(x)

\* the i-th message of the queue carries paper id "pi.01"
MessageBodies(i) ==
    { JsonObject(RowId(i, 1), Title),
      JsonObject(RowId(i, 1), None),
      JsonObject(None, Title),
      JsonArray,
      JsonInvalid }

\* OpenAlex: what one requests.get + raise_for_status + json() gives
\* (exc is type(e).__name__ of what the call raises; body is the kind of
\* JSON value r.json() gives)
HttpError(s)  == [kind |-> "http_error", status |-> s, body |-> "", results |-> <<>>,
                  exc |-> "HTTPError"]
Raised(name)  == [kind |-> "exception", status |-> 0, body |-> "", results |-> <<>>,
                  exc |-> name]
NetworkError  == Raised("ConnectionError")
Timeout       == Raised("Timeout")
Ok(results)   == [kind |-> "ok", status |-> 200, body |-> "object", results |-> results,
                  exc |-> ""]
OkList        == [kind |-> "ok", status |-> 200, body |-> "list", results |-> <<>>,
                  exc |-> ""]

AuthorUrl(n) == <<"https:", "", "openalex.org", <<"A", Digit(n)>>>>
AuthorName(n) == <<"n", Digit(n)>>
Authorship(n) == [author |-> [id |-> AuthorUrl(n), display_name |-> AuthorName(n)]]
PaperData(authorships) ==
    [display_name |-> Title, cited_by_count |-> <<"7">>, authorships |-> authorships]
AuthorRecord(n, h) == [id |-> AuthorUrl(n), summary_stats |-> [h_index |-> h]]

WorksResponses ==
    { HttpError(400), HttpError(404), HttpError(429), HttpError(500),
      Timeout,
      OkList,
      Ok(<<>>),
      Ok(<<PaperData(<<Authorship(1), Authorship(2), Authorship(3)>>)>>) }

AuthorsResponses ==
    { HttpError(404), HttpError(429),
      Ok(<<AuthorRecord(3, <<"3", "0">>), AuthorRecord(1, <<"5", "0">>)>>) }

\* id.split('/')[-1]
split_last(url) == url[Len(url)]

\* S3 keys of the result objects: citation_results/<dir>/<stem><tail>
S3Key(dir, paper_id, tail) == [dir |-> dir, stem |-> fstr(paper_id), tail |-> tail]

\* s3.put_object(Bucket, Key, Body) on the result bucket; ok is whether S3
\* accepts the write: a call S3 does not accept writes nothing and raises
\* botocore's ClientError
put_object(objects, key, body, ok) ==
    IF ok
    THEN {o \in objects : o.key # key} \cup {[key |-> key, body |-> body]}
    ELSE objects

\* One observable effect of a worker invocation.
WEv(op) ==
    [op |-> op, what |-> "", status |-> 0, n |-> 0, exc |-> "",
     key |-> [dir |-> "", stem |-> <<>>, tail |-> ""], body |-> [type |-> "none"]]

\* (n is the number of results of the answer, -1 for an answer whose JSON
\* value is no object; exc is type(e).__name__ of the exception the request
\* ends in: an answer whose JSON value is no object makes .get raise
\* AttributeError)
GetEv(what, r) ==
    [WEv("get") EXCEPT !.what = what, !.status = r.status,
        !.n = IF r.kind = "ok" /\ r.body # "object" THEN -1 ELSE Len(r.results),
        !.exc = IF r.kind = "ok" /\ r.body # "object" THEN "AttributeError" ELSE r.exc]
\* a put_object call: "put" when S3 accepted it, "put_failed" when it raised
PutEv(key, body, ok) ==
    [WEv(IF ok THEN "put" ELSE "put_failed") EXCEPT !.key = key, !.body = body]
RaiseEv == WEv("raise")

\* a put_object call that raises where no except clause catches it (lines
\* 36, 41, 118, 121): the exception leaves the handler
escapes(effects) ==
    IF effects[Len(effects)].op = "put_failed" THEN Append(effects, RaiseEv)
    ELSE effects

(***************************************************************************)
(* Worker: process_paper and its helpers, as the effects they have.        *)
(***************************************************************************)
\* log_not_found: one write (ok: whether S3 accepts it)
log_not_found(paper_id, title, details, ok) ==
    << PutEv(S3Key("not_found", paper_id, ".json"),
             [type |-> "not_found", paper_id |-> paper_id, title |-> title,
              status |-> "Not Found", details |-> details], ok) >>

\* log_permanent_error: one write, no raise of its own
log_permanent_error(paper_id, error_type, original_message, ok) ==
    << PutEv(S3Key("error", paper_id, "_permanent_error.json"),
             [type |-> "error", error_type |-> error_type,
              original_message |-> original_message], ok) >>

\* a variant of handle_retriable_error that raises without the write
handle_retriable_error_unlogged(error_type, paper_id, title, original_message, ok) ==
    << RaiseEv >>

\* handle_retriable_error: writes the diagnostic object, then raises e; a
\* write S3 does not accept raises in its place (line 159), so the function
\* ends in a raise either way
handle_retriable_error(error_type, paper_id, title, original_message, ok) ==
    << PutEv(S3Key("error", paper_id, "_retriable.json"),
             [type |-> "retriable", paper_id |-> paper_id, title |-> title,
              error_type |-> error_type, original_message |-> original_message], ok),
       RaiseEv >>

\* status_code == 429 or status_code >= 500
is_retriable(status_code) == status_code = 429 \/ status_code >= 500

\* status_code == 404
is_not_found(status_code) == status_code = 404

\* except requests.exceptions.HTTPError as e (lines 111-121); an error_type is
\* the tuple of the pieces of its text, f"HTTPError_{status_code}" being
\* <<"HTTPError_", status_code>>.  ok is whether S3 accepts the clause's
\* write; no except clause catches what an except clause raises.
on_http_error(status_code, paper_id, title, original_message, ok) ==
    IF is_retriable(status_code)
    THEN handle_retriable_error(<<"HTTPError">>, paper_id, title, original_message, ok)
    ELSE IF is_not_found(status_code)
    THEN escapes(log_not_found(paper_id, title, "OpenAlex API returned HTTP 404.", ok))
    ELSE escapes(log_permanent_error(paper_id, <<"HTTPError_", status_code>>,
                                     original_message, ok))

\* what a failed request leads to: HTTPError (lines 111-121) or any other
\* exception (lines 123-125); an answer whose JSON value is no object makes
\* .get raise AttributeError
on_failure(r, paper_id, title, original_message, ok) ==
    IF r.kind = "http_error"
    THEN on_http_error(r.status, paper_id, title, original_message, ok)
    ELSE IF r.kind = "exception"
    THEN handle_retriable_error(<<r.exc>>, paper_id, title, original_message, ok)
    ELSE handle_retriable_error(<<"AttributeError">>, paper_id, title,
                                original_message, ok)

\* except Exception (lines 123-125) for a write made inside the try (lines
\* 64, 108): a put_object that raises there is handled as retriable
on_put_error(effects, paper_id, title, original_message, ok) ==
    IF effects[Len(effects)].op = "put_failed"
    THEN effects \o handle_retriable_error(<<"ClientError">>, paper_id, title,
                                           original_message, ok)
    ELSE effects

\* lines 71-75 (an authorship without an author, or whose author has no id,
\* is one whose author.id is None)
author_ids(paper_data) ==
    LET withId == SelectSeq(paper_data.authorships,
                            LAMBDA a : a.author.id # None)
    IN  [i \in 1..Len(withId) |-> split_last(withId[i].author.id)]

\* a variant of author_info that pairs authorships and author records by
\* position
author_info_by_position(paper_data, authors_results) ==
    LET withId == SelectSeq(paper_data.authorships,
                            LAMBDA a : a.author.id # None)
    IN  [i \in 1..Len(withId) |->
           [name |-> withId[i].author.display_name,
            hIndex |-> IF i <= Len(authors_results)
                       THEN authors_results[i].summary_stats.h_index
                       ELSE None]]

\* lines 86-96: the h-index of each authorship, in authorship order
author_info(paper_data, authors_results) ==
    LET withId == SelectSeq(paper_data.authorships,
                            LAMBDA a : a.author.id # None)
        Found(auth_id) == {j \in 1..Len(authors_results) :
                              split_last(authors_results[j].id) = auth_id}
        \* a dict comprehension keeps the last record of an id
        Details(auth_id) == authors_results[CHOOSE j \in Found(auth_id) :
                                               \A k \in Found(auth_id) : k <= j]
    IN  [i \in 1..Len(withId) |->
           LET auth_id == split_last(withId[i].author.id)
           IN  [name |-> withId[i].author.display_name,
                hIndex |-> IF Found(auth_id) = {} THEN None
                           ELSE Details(auth_id).summary_stats.h_index]]

\* lines 99-108
success_put(paper_id, title, paper_data, info, ok) ==
    << PutEv(S3Key("success", paper_id, ".json"),
             [type |-> "success", original_id |-> paper_id, searched_title |-> title,
              found_paper_title |-> paper_data.display_name,
              citationCount |-> paper_data.cited_by_count,
              authors |-> info], ok) >>

\* process_paper: rWorks and rAuthors are what the two requests give, puts[k]
\* is whether S3 accepts the k-th put_object call made for the record
process_paper(paper_id, title, original_message, rWorks, rAuthors, puts) ==
    IF rWorks.kind # "ok" \/ rWorks.body # "object"
    THEN <<GetEv("works", rWorks)>> \o
         on_failure(rWorks, paper_id, title, original_message, puts[1])
    ELSE IF rWorks.results = <<>>
    THEN <<GetEv("works", rWorks)>> \o
         on_put_error(log_not_found(paper_id, title,
                         "No results returned from OpenAlex for this title.", puts[1]),
                      paper_id, title, original_message, puts[2])
    ELSE IF author_ids(rWorks.results[1]) = <<>>
    THEN <<GetEv("works", rWorks)>> \o
         on_put_error(success_put(paper_id, title, rWorks.results[1], <<>>, puts[1]),
                      paper_id, title, original_message, puts[2])
    ELSE IF rAuthors.kind # "ok" \/ rAuthors.body # "object"
    THEN <<GetEv("works", rWorks), GetEv("authors", rAuthors)>> \o
         on_failure(rAuthors, paper_id, title, original_message, puts[1])
    ELSE <<GetEv("works", rWorks), GetEv("authors", rAuthors)>> \o
         on_put_error(success_put(paper_id, title, rWorks.results[1],
                                  author_info(rWorks.results[1], rAuthors.results),
                                  puts[1]),
                      paper_id, title, original_message, puts[2])

\* whether process_paper issues the authors request
NeedsAuthors(rWorks) ==
    /\ rWorks.kind = "ok"
    /\ rWorks.body = "object"
    /\ rWorks.results # <<>>
    /\ author_ids(rWorks.results[1]) # <<>>

\* lines 25-45: the body of the handler's loop for one record
handle_record(original_message, rWorks, rAuthors, puts) ==
    LET message_body == json_loads(original_message)
        begin == WEv("begin")
    IN  IF message_body.error = "JSONDecodeError"
        THEN <<begin>> \o
             escapes(log_permanent_error(<<"unknown_id_parsing_error">>,
                                         <<"JSONDecodeError">>, original_message,
                                         puts[1]))
        ELSE IF message_body.error = "AttributeError"
        THEN <<begin, RaiseEv>>
        ELSE IF Falsy(message_body.paper_id) \/ Falsy(message_body.title)
        THEN <<begin>> \o
             escapes(log_permanent_error(message_body.paper_id,
                                         <<"MalformedMessage">>, original_message,
                                         puts[1]))
        ELSE <<begin>> \o process_paper(message_body.paper_id, message_body.title,
                                        original_message, rWorks, rAuthors, puts)

\* whether handling this message reaches process_paper
WellFormed(original_message) ==
    LET message_body == json_loads(original_message)
    IN  /\ message_body.error = ""
        /\ ~Falsy(message_body.paper_id)
        /\ ~Falsy(message_body.title)

RECURSIVE ApplyPuts(_, _)
ApplyPuts(objects, effects) ==
    IF effects = <<>> THEN objects
    ELSE ApplyPuts(IF Head(effects).op \in {"put", "put_failed"}
                   THEN put_object(objects, Head(effects).key, Head(effects).body,
                                   Head(effects).op = "put")
                   ELSE objects,
                   Tail(effects))

(***************************************************************************)
(* Worker: handler, driven by the queue.                                   *)
(***************************************************************************)
\* what wlog keeps of an effect of record rec (the body of a put is in sink)
Logged(e, rec) ==
    [op |-> e.op, rec |-> rec, what |-> e.what, status |-> e.status, n |-> e.n,
     exc |-> e.exc, key |-> e.key]

Visible == (1..Len(queue)) \ acked

\* the deliveries the queue can make: the oldest k visible messages, k >= 1
Deliveries ==
    LET RECURSIVE Asc(_)
        Asc(S) == IF S = {} THEN <<>>
                  ELSE LET m == CHOOSE x \in S : \A y \in S : x <= y
                       IN  <<m>> \o Asc(S \ {m})
    IN  {Asc({x \in Visible : x <= top}) : top \in Visible}

\* The queue invokes the handler with a delivery (event['Records']).
WReceive ==
    /\ wpc # "loop"
    /\ wCount < MaxDeliveries
    /\ \E d \in Deliveries :
         wrun' = [delivery |-> d, idx |-> 1]
    /\ wpc' = "loop"
    /\ wCount' = wCount + 1
    /\ wlog' = <<>>
    /\ UNCHANGED <<acked, sink, queue>>
    /\ UNCHANGED dvars
    /\ UNCHANGED fvars

\* One iteration of the handler's loop (lines 24-45), process_paper included.
WRecord ==
    /\ wpc = "loop"
    /\ wrun.idx <= Len(wrun.delivery)
    /\ LET original_message == queue[wrun.delivery[wrun.idx]]
       IN  \E rWorks \in (IF WellFormed(original_message)
                          THEN WorksResponses ELSE {NetworkError}) :
           \E rAuthors \in (IF WellFormed(original_message) /\ NeedsAuthors(rWorks)
                            THEN AuthorsResponses ELSE {NetworkError}) :
           \E puts \in [1..2 -> BOOLEAN] :
              LET effects == handle_record(original_message, rWorks, rAuthors, puts)
                  raised  == effects[Len(effects)].op = "raise"
              IN  /\ wlog' = wlog \o [i \in 1..Len(effects) |-> Logged(effects[i], wrun.idx)]
                  /\ sink' = ApplyPuts(sink, effects)
                  /\ IF raised
                     THEN /\ wpc' = "raised"
                          /\ wrun' = wrun
                     ELSE /\ wpc' = "loop"
                          /\ wrun' = [wrun EXCEPT !.idx = @ + 1]
    /\ UNCHANGED <<acked, wCount, queue>>
    /\ UNCHANGED dvars
    /\ UNCHANGED fvars

\* The loop is exhausted: the handler returns and the queue deletes the
\* messages of the delivery.
WReturn ==
    /\ wpc = "loop"
    /\ wrun.idx > Len(wrun.delivery)
    /\ wpc' = "returned"
    /\ acked' = acked \cup {wrun.delivery[i] : i \in 1..Len(wrun.delivery)}
    /\ wlog' = Append(wlog, Logged(WEv("return"), 0))
    /\ UNCHANGED <<sink, wrun, wCount, queue>>
    /\ UNCHANGED dvars
    /\ UNCHANGED fvars

WorkerInit ==
    /\ bucket = {}
    /\ content = [k \in Keys |-> "unreadable"]
    /\ pending = <<>>
    /\ dpc = <<>>
    /\ run = <<>>
    /\ dlog = <<>>
    /\ \E n \in 1..MaxMsgs :
         /\ queue \in [1..n -> UNION {MessageBodies(i) : i \in 1..n}]
         /\ \A i \in 1..n : queue[i] \in MessageBodies(i)
    /\ acked = {}
    /\ sink = {}
    /\ wpc = "idle"
    /\ wrun = NoWRun
    /\ wCount = 0
    /\ wlog = <<>>
    /\ frame = <<>>
    /\ result = NoResult

WorkerNext == WReceive \/ WRecord \/ WReturn

WorkerSpec == WorkerInit /\ [][WorkerNext]_vars

(***************************************************************************)
(* Worker: what the log of an invocation shows.                            *)
(***************************************************************************)
WAt(op) == {p \in 1..Len(wlog) : wlog[p].op = op}

\* the message of the r-th record of the delivery being (or last) handled
Msg(r) == queue[wrun.delivery[r]]
Records == 1..Len(wrun.delivery)

\* the paper id of the r-th record as it appears in S3 keys
KeyId(r) == fstr(json_loads(Msg(r)).paper_id)

\* the invocation is over
Ended == wpc \in {"returned", "raised"}

\* a request that failed the way the transient path names: HTTP 429, HTTP
\* status >= 500, or a network or timeout exception of requests.get
TransientGet(e) ==
    /\ e.op = "get"
    /\ \/ e.exc = "HTTPError" /\ (e.status = 429 \/ e.status >= 500)
       \/ e.exc \in {"ConnectionError", "Timeout"}

\* record r was processed: a lookup was attempted and a result was written
Processed(r) ==
    /\ \E p \in WAt("get") : wlog[p].rec = r /\ wlog[p].what = "works"
    /\ \E p \in WAt("put") : wlog[p].rec = r

AllWellFormed == \A r \in Records : WellFormed(Msg(r))

\* S3 accepted every write of the invocation
EveryPutAccepted == WAt("put_failed") = {}

\* C5: in a delivery of well-formed records every record is processed in
\* that invocation (a lookup is attempted and a result object is written for
\* it), whatever the outcome of the other records; stated for the
\* invocations in which S3 accepts every write.
C5_SiblingsAlwaysProcessed ==
    (Ended /\ AllWellFormed /\ EveryPutAccepted) => \A r \in Records : Processed(r)

\* C6: while success/<id>.json is in the result bucket, handling a record
\* with that id issues no request to the API and leaves the object as it is.
C6_RedeliveryIsNoOp ==
    [][\A o \in sink :
          (/\ o.key.dir = "success"
           /\ wpc = "loop"
           /\ wrun.idx <= Len(wrun.delivery)
           /\ WellFormed(Msg(wrun.idx))
           /\ KeyId(wrun.idx) = o.key.stem)
          => /\ o \in sink'
             /\ Cardinality({p \in 1..Len(wlog') : wlog'[p].op = "get"})
                  = Cardinality(WAt("get"))]_vars

\* C7 as stated: a request that fails with HTTP 429, HTTP >= 500 or a
\* network or timeout exception is directly followed by the write of
\* error/<id>_retriable.json, which is then in the result bucket with
\* error_type the name of the exception's class, and that by the raise that
\* ends the invocation, with the delivery left unacknowledged; the handler
\* never raises for a well-formed record without that write directly before.
C7_TransientLoggedThenRaised ==
    /\ \A p \in WAt("get") :
          TransientGet(wlog[p]) =>
             /\ p + 2 = Len(wlog)
             /\ wlog[p + 1].op = "put"
             /\ wlog[p + 1].rec = wlog[p].rec
             /\ wlog[p + 1].key = S3Key("error", KeyId(wlog[p].rec), "_retriable.json")
             /\ \E o \in sink : /\ o.key = wlog[p + 1].key
                                /\ o.body.type = "retriable"
                                /\ o.body.error_type = <<wlog[p].exc>>
             /\ wlog[p + 2].op = "raise"
             /\ wlog[p + 2].rec = wlog[p].rec
             /\ wpc = "raised"
             /\ \A r \in Records : wrun.delivery[r] \notin acked
    /\ \A q \in WAt("raise") :
          WellFormed(Msg(wlog[q].rec)) =>
             /\ q > 2
             /\ wlog[q - 1].op = "put"
             /\ wlog[q - 1].key.tail = "_retriable.json"

\* C7 amended: a request that fails with HTTP 429, HTTP >= 500 or a network
\* or timeout exception is directly followed by the put_object call for
\* error/<id>_retriable.json and that by the raise that ends the invocation,
\* with the delivery left unacknowledged; when S3 accepts the call the
\* object is in the result bucket, with error_type the name of the
\* exception's class, before the raise; when S3 does not accept it the
\* handler raises all the same and nothing has been written.  The handler
\* raises for a well-formed record only right after the write of the
\* retriable object or out of a put_object call S3 did not accept.
C7_LoggedUnlessWriteFails ==
    /\ \A p \in WAt("get") :
          TransientGet(wlog[p]) =>
             /\ p + 2 = Len(wlog)
             /\ wlog[p + 1].op \in {"put", "put_failed"}
             /\ wlog[p + 1].rec = wlog[p].rec
             /\ wlog[p + 1].key = S3Key("error", KeyId(wlog[p].rec), "_retriable.json")
             /\ wlog[p + 1].op = "put" =>
                   \E o \in sink : /\ o.key = wlog[p + 1].key
                                   /\ o.body.type = "retriable"
                                   /\ o.body.error_type = <<wlog[p].exc>>
             /\ wlog[p + 2].op = "raise"
             /\ wlog[p + 2].rec = wlog[p].rec
             /\ wpc = "raised"
             /\ \A r \in Records : wrun.delivery[r] \notin acked
    /\ \A q \in WAt("raise") :
          WellFormed(Msg(wlog[q].rec)) =>
             /\ q > 2
             /\ \/ wlog[q - 1].op = "put" /\ wlog[q - 1].key.tail = "_retriable.json"
                \/ wlog[q - 1].op = "put_failed"

\* the lookup of the second record of a delivery failed with HTTP 500, the
\* retriable object was written with error_type HTTPError, and the handler
\* raised
C7_Witness ==
    /\ wpc = "raised"
    /\ \E p \in WAt("get") :
          /\ wlog[p].status = 500
          /\ wlog[p].rec = 2
          /\ wlog[p + 1].op = "put"
          /\ \E o \in sink : /\ o.key = wlog[p + 1].key
                             /\ o.body.error_type = <<"HTTPError">>

\* C8: a request that fails with an HTTP 4xx status other than 429 and 404
\* is directly followed by the write of error/<id>_permanent_error.json,
\* which is the only object written for that record in that attempt; the
\* handler does not raise for that record but goes on, and once the
\* invocation is over the record's message is acknowledged: the queue does
\* not deliver it again.  Stated for the invocations in which S3 accepts
\* every write.
C8_PermanentRejection ==
    \A p \in WAt("get") :
       (/\ wlog[p].status >= 400 /\ wlog[p].status < 500
        /\ wlog[p].status # 429 /\ wlog[p].status # 404
        /\ EveryPutAccepted) =>
          /\ p + 1 <= Len(wlog)
          /\ wlog[p + 1].op = "put"
          /\ wlog[p + 1].key = S3Key("error", KeyId(wlog[p].rec), "_permanent_error.json")
          /\ \E o \in sink : o.key = wlog[p + 1].key /\ o.body.type = "error"
          /\ \A q \in WAt("put") : wlog[q].rec = wlog[p].rec => q = p + 1
          /\ \A q \in WAt("raise") : wlog[q].rec # wlog[p].rec
          /\ (p + 2 <= Len(wlog)) => wlog[p + 2].op \in {"begin", "return"}
          /\ Ended => wrun.delivery[wlog[p].rec] \in acked

\* C9: a message that is not valid JSON, is no JSON object, or lacks
\* paper_id or title leads to one write under error/ and nothing else: no
\* request, no raise, and the handler goes on with the next record.
C9_MalformedIsPermanent ==
    \A p \in WAt("begin") :
       ~WellFormed(Msg(wlog[p].rec)) =>
          /\ p + 1 <= Len(wlog)
          /\ wlog[p + 1].op = "put"
          /\ wlog[p + 1].rec = wlog[p].rec
          /\ wlog[p + 1].key.dir = "error"
          /\ \A q \in WAt("get") : wlog[q].rec # wlog[p].rec
          /\ \A q \in WAt("raise") : wlog[q].rec # wlog[p].rec
          /\ (p + 2 <= Len(wlog)) => wlog[p + 2].op \in {"begin", "return"}

\* C10: a title search that returns zero results, or HTTP 404, is directly
\* followed by the write of not_found/<id>.json; no object under error/ is
\* written for that record in that attempt, the handler does not raise for
\* it, and once the invocation is over the record's message is
\* acknowledged.  Stated for the invocations in which S3 accepts every write.
C10_NotFoundIsTerminal ==
    \A p \in WAt("get") :
       (/\ wlog[p].what = "works"
        /\ \/ wlog[p].status = 200 /\ wlog[p].n = 0
           \/ wlog[p].status = 404
        /\ EveryPutAccepted) =>
          /\ p + 1 <= Len(wlog)
          /\ wlog[p + 1].op = "put"
          /\ wlog[p + 1].rec = wlog[p].rec
          /\ wlog[p + 1].key = S3Key("not_found", KeyId(wlog[p].rec), ".json")
          /\ \E o \in sink : o.key = wlog[p + 1].key /\ o.body.type = "not_found"
          /\ \A q \in WAt("put") : wlog[q].rec = wlog[p].rec => wlog[q].key.dir # "error"
          /\ \A q \in WAt("raise") : wlog[q].rec # wlog[p].rec
          /\ Ended => wrun.delivery[wlog[p].rec] \in acked

(***************************************************************************)
(* Records of the corpus, from the input bucket to the worker.             *)
(***************************************************************************)
\* a line that lacks its id or its title: the key is absent or its value null
Lacking(line) == line.id \in {Absent, Null} \/ line.title \in {Absent, Null}

\* a record that lacks its id or its title, as a row of a data frame
Missing(row) == row.id = NaN \/ row.title = NaN

\* a message that carries what the line carries (a field it lacks is None)
AsMessage(line) ==
    JsonObject(IF line.id \in {Absent, Null} THEN None ELSE line.id,
               IF line.title \in {Absent, Null} THEN None ELSE line.title)

\* the records of the source groups: each line with the row read from it
CorpusRecords ==
    UNION { LET lines == Lines(k.name, content[k])
                rows  == frames[k.name][content[k]].rows
            IN  {[line |-> lines[i], row |-> rows[i]] : i \in 1..Len(lines)}
            : k \in {g \in SourceGroups : content[g] # "unreadable"} }

\* the worker, handed a record that lacks its id or its title, issues no
\* request to the API whatever the API would answer; for every such record a
\* file of the corpus can hold
WorkerRejectsLacking ==
    \A k \in Keys : \A kind \in FileKinds :
       LET lines == Lines(k.name, kind)
       IN  \A j \in 1..Len(lines) :
              Lacking(lines[j]) =>
                 \A rWorks \in WorksResponses : \A rAuthors \in AuthorsResponses :
                    LET effects == handle_record(AsMessage(lines[j]), rWorks, rAuthors,
                                                 <<TRUE, TRUE>>)
                    IN  \A p \in 1..Len(effects) : effects[p].op # "get"

\* C11: every message the dispatcher publishes carries the id and the title
\* of one record of the corpus that lacks neither (the id as the line
\* carries it or as the data frame holds it); no message carries the id of a
\* record that lacks its id or its title; and the worker, handed such a
\* record, issues no request to the API.
C11_MalformedNeverProcessed ==
    [][/\ WorkerRejectsLacking
       /\ queue' # queue =>
             LET records   == CorpusRecords
                 published == {queue'[i] : i \in (Len(queue) + 1)..Len(queue')}
                 whole     == {r \in records : ~Lacking(r.line)}
                 complete  == {json_dumps(r.line.id, r.line.title) : r \in whole}
                              \cup {json_dumps(r.row.id, r.row.title) : r \in whole}
                 lacking   == {r \in records : Lacking(r.line)}
             IN  /\ Len(queue') > Len(queue)
                 /\ SubSeq(queue', 1, Len(queue)) = queue
                 /\ published \subseteq complete
                 /\ \A r \in lacking : \A m \in published :
                       m.paper_id \notin {r.line.id, r.row.id}]_vars

(***************************************************************************)
(* dispatch_dataframe on its own: any frame of well-formed rows.           *)
(***************************************************************************)
\* Record ids: short texts over a letter and two punctuation marks, and the
\* same texts after a prefix as long as the limit of an entry Id.
RecordIds ==
    UNION {[1..n -> {"a", ".", "/"}] : n \in 1..MaxIdLen}
    \cup {[i \in 1..IdLimit |-> "a"] \o id :
             id \in UNION {[1..n -> {"a", ".", "/"}] : n \in 1..MaxIdLen}}

\* a frame of n rows whose first two ids are a and b
FrameOf(a, b, n) ==
    [i \in 1..n |->
        [id |-> IF i = 1 THEN a ELSE IF i = 2 THEN b ELSE RowId(1, i),
         title |-> Title]]

\* dispatch_dataframe(df): outs are what its send_message_batch calls do
FDispatch ==
    /\ ~result.done
    /\ \E outs \in [1..NumCalls(frame) -> SendOutcomes] :
         LET d == dispatch_dataframe(frame, outs)
         IN  /\ result' = [done |-> TRUE, calls |-> d.calls,
                           message_count |-> d.message_count, raised |-> d.raised]
             /\ queue' = queue \o AcceptedBodies(d.calls)
    /\ UNCHANGED frame
    /\ UNCHANGED dvars
    /\ UNCHANGED wvars

BatchInit ==
    /\ \E n \in 0..MaxFrame : \E a \in RecordIds : \E b \in RecordIds :
         /\ a # b
         /\ frame = FrameOf(a, b, n)
    /\ result = NoResult
    /\ bucket = {}
    /\ content = [k \in Keys |-> "unreadable"]
    /\ pending = <<>>
    /\ dpc = <<>>
    /\ run = <<>>
    /\ queue = <<>>
    /\ dlog = <<>>
    /\ acked = {}
    /\ sink = {}
    /\ wpc = "idle"
    /\ wrun = NoWRun
    /\ wCount = 0
    /\ wlog = <<>>

BatchNext == FDispatch

BatchSpec == BatchInit /\ [][BatchNext]_vars

\* the record ids of the frame are pairwise distinct
DistinctIds ==
    \A i \in 1..Len(frame) : \A j \in 1..Len(frame) :
       frame[i].id = frame[j].id => i = j

\* C12: for a frame of pairwise distinct record ids, in every
\* send_message_batch call the entry Ids are pairwise distinct, each is at
\* most 80 characters of [A-Za-z0-9_-], and the call carries at most 10
\* entries.
C12_EntryIdsUnique ==
    (result.done /\ DistinctIds) =>
       \A c \in 1..Len(result.calls) :
          LET entries == result.calls[c].entries
          IN  /\ Len(entries) <= 10
              /\ \A i \in 1..Len(entries) :
                    /\ Len(entries[i].Id) <= 80
                    /\ \A k \in 1..Len(entries[i].Id) :
                          entries[i].Id[k] \in AllowedChars
              /\ \A i \in 1..Len(entries) : \A j \in 1..Len(entries) :
                    entries[i].Id = entries[j].Id => i = j

\* the message bodies of a sequence of calls, in order
RECURSIVE Bodies(_)
Bodies(calls) ==
    IF calls = <<>> THEN <<>>
    ELSE [j \in 1..Len(Head(calls).entries) |-> Head(calls).entries[j].MessageBody]
         \o Bodies(Tail(calls))

\* C13: a frame of N rows whose send_message_batch calls all return leads
\* to ceil(N/10) calls, each of 10 entries except the last, which carries
\* N mod 10 entries (10 if that is 0); the entries of the calls, in order,
\* are the rows of the frame in order; the count returned is N; and an
\* empty frame leads to no call at all.
C13_Batching ==
    (result.done /\ ~result.raised) =>
       LET N == Len(frame)
           B == 10
           calls == result.calls
       IN  /\ Len(calls) = (N + B - 1) \div B
           /\ \A c \in 1..Len(calls) :
                 Len(calls[c].entries) =
                    IF c < Len(calls) THEN B
                    ELSE IF N % B = 0 THEN B ELSE N % B
           /\ Bodies(calls) = [i \in 1..N |-> json_dumps(frame[i].id, frame[i].title)]
           /\ result.message_count = N
           /\ (N = 0) => calls = <<>>

\* a frame of two full batches and one more row was dispatched in three calls
C13_Witness ==
    /\ result.done
    /\ ~result.raised
    /\ Len(frame) = 2 * batch_size + 1
    /\ Len(result.calls) = 3

(***************************************************************************)
(* Worker: the author step and the objects of one record id.               *)
(***************************************************************************)
\* the title search of record r found a work
Matched(p) ==
    wlog[p].op = "get" /\ wlog[p].what = "works" /\ wlog[p].status = 200 /\ wlog[p].n >= 1

\* C14: a record whose title search found a work ends with the write of
\* success/<id>.json, whatever the author request does: nothing is written
\* under not_found/ or error/ for it and the handler does not raise for it.
C14_AuthorFailureDegrades ==
    \A p \in WAt("get") :
       Matched(p) =>
          /\ \E q \in WAt("put") :
                /\ wlog[q].rec = wlog[p].rec
                /\ wlog[q].key = S3Key("success", KeyId(wlog[p].rec), ".json")
          /\ \A q \in WAt("put") :
                wlog[q].rec = wlog[p].rec => wlog[q].key.dir = "success"
          /\ \A q \in WAt("raise") : wlog[q].rec # wlog[p].rec

\* the h-index the author request gave for the author of this id, if any
HIndexOf(rAuthors, id) ==
    IF \E j \in 1..Len(rAuthors.results) : rAuthors.results[j].id = id
    THEN rAuthors.results[CHOOSE j \in 1..Len(rAuthors.results) :
                             rAuthors.results[j].id = id].summary_stats.h_index
    ELSE None

\* C15: the authors of every success object are the authors of the matched
\* work in the order of the work's author list: same length, the i-th name
\* is the i-th author's name, and the i-th h-index is the one the author
\* request returned for the i-th author's id (None if it returned none),
\* wherever that author stands in the answer.
C15_AuthorOrder ==
    \A o \in sink :
       o.key.dir = "success" =>
          \E rWorks \in WorksResponses :
             /\ rWorks.kind = "ok"
             /\ rWorks.results # <<>>
             /\ LET authorships == rWorks.results[1].authorships
                    authors     == o.body.authors
                IN  /\ Len(authors) = Len(authorships)
                    /\ \E rAuthors \in AuthorsResponses :
                          /\ rAuthors.kind = "ok"
                          /\ \A i \in 1..Len(authors) :
                                /\ authors[i].name = authorships[i].author.display_name
                                /\ authors[i].hIndex =
                                      HIndexOf(rAuthors, authorships[i].author.id)

\* a success object lists three authors; the author request answered with
\* the third author first, then the first, and not with the second
C15_Witness ==
    \E o \in sink :
       /\ o.key.dir = "success"
       /\ Len(o.body.authors) = 3
       /\ [i \in 1..3 |-> o.body.authors[i].name]
             = <<AuthorName(1), AuthorName(2), AuthorName(3)>>
       /\ [i \in 1..3 |-> o.body.authors[i].hIndex]
             = << <<"5", "0">>, None, <<"3", "0">> >>

\* C19: the result bucket never holds success/<id>.json together with
\* not_found/<id>.json, and while success/<id>.json is in the bucket no
\* object is written under not_found/ or error/ for that id.
C19_OutcomeConsistency ==
    [][/\ \A o \in sink' : \A n \in sink' :
             ~(/\ o.key.dir = "success"
               /\ n.key.dir = "not_found"
               /\ n.key.stem = o.key.stem)
       /\ \A o \in sink :
             o.key.dir = "success" =>
                \A p \in (Len(wlog) + 1)..Len(wlog') :
                   (wlog'[p].op = "put" /\ wlog'[p].key.stem = o.key.stem)
                      => wlog'[p].key.dir = "success"]_vars

\* C20: every write of not_found/<id>.json directly follows the title
\* search of that record, which returned zero results or HTTP 404; a record
\* whose title search found a work gets no object under not_found/.
C20_NotFoundOnlyUnmatched ==
    /\ \A q \in WAt("put") :
          wlog[q].key.dir = "not_found" =>
             /\ q > 1
             /\ wlog[q - 1].op = "get"
             /\ wlog[q - 1].what = "works"
             /\ wlog[q - 1].rec = wlog[q].rec
             /\ \/ wlog[q - 1].status = 200 /\ wlog[q - 1].n = 0
                \/ wlog[q - 1].status = 404
    /\ \A p \in WAt("get") :
          Matched(p) =>
             \A q \in WAt("put") :
                wlog[q].rec = wlog[p].rec => wlog[q].key.dir # "not_found"

(***************************************************************************)
(* Dispatcher: source errors, progress of the chain, delivery.             *)
(***************************************************************************)
\* the source group a message was made from
GroupOf(body) == CHOOSE k \in Keys : endswith_jsonl(k) /\ Digit(k.name) = body.paper_id[2]

\* C16: in every invocation, however it overlaps with the others, the read of
\* a group that cannot be read is followed by the invocation raising and by
\* nothing else of that invocation; an invocation that fails to list or to
\* read returns no status and triggers no continuation, no other invocation
\* is running or waiting to run, the group is not counted as processed, no
\* message is sent for it, and the queue holds messages of earlier groups
\* only.
C16_SourceErrorAborts ==
    \A k \in Invocations :
       LET own == Own(k)
       IN  /\ \A p \in 1..Len(own) :
                (own[p].ev = "read" /\ content[own[p].key] = "unreadable") =>
                   /\ p = Len(own) => dpc[k] = "raising"
                   /\ p < Len(own) =>
                         /\ p + 1 = Len(own)
                         /\ own[p + 1].ev = "raise"
                         /\ dpc[k] = "done"
                   /\ \A q \in 1..Len(own) : own[q].ev \notin {"return", "invoke"}
                   /\ pending = <<>>
                   /\ \A j \in Invocations : j # k => dpc[j] \in {"invoked", "done"}
                   /\ \A q \in At("group") \cup At("send") : dlog[q].key # own[p].key
                   /\ \A i \in 1..Len(queue) :
                         GroupOf(queue[i]).name > own[p].key.name
           /\ (Len(own) >= 2 /\ own[1].ev = "start" /\ own[2].ev = "raise") =>
                   /\ Len(own) = 2
                   /\ dpc[k] = "done"
                   /\ dlog = own
                   /\ pending = <<>>
                   /\ queue = <<>>

\* the first invocation dispatched the first group and handed off; the
\* second raised on reading the second group before the first returned
C16_Witness ==
    \E p \in At("raise") : \E q \in At("read") : \E r \in At("return") :
       /\ dlog[q].inv = 2
       /\ dlog[q].idx = 1
       /\ dlog[p].inv = 2
       /\ dlog[r].inv = 1
       /\ q < p /\ p < r
       /\ queue # <<>>

\* C17: an invocation that triggers a continuation has processed a group
\* before, the start_index it passes on is greater than the one it received,
\* and a chain over K groups has at most K + 1 invocations.
C17_ChainProgress ==
    /\ \A p \in Invoked :
          /\ \E g \in At("group") : g < p /\ dlog[g].inv = dlog[p].inv
          /\ \A q \in At("start") :
                dlog[q].inv = dlog[p].inv => dlog[p].start_index > dlog[q].start_index
    /\ Cardinality(At("start")) <= Cardinality(SourceGroups) + 1

\* C18: every record with id and title of every group the chain counts as
\* processed has its message in the queue, from where the worker receives it.
C18_NoDispatchedRecordLost ==
    \A p \in At("group") :
       LET df == frames[dlog[p].key.name][content[dlog[p].key]].rows
       IN  \A i \in 1..Len(df) :
              ~Missing(df[i]) =>
                 \E j \in 1..Len(queue) : queue[j] = json_dumps(df[i].id, df[i].title)

====
